---- MODULE Spec2Model ----
(***************************************************************************)
(* Model of baidu_fanyi: the mini_fmt format-string engine (src/lib.rs)    *)
(* and the glue of main.rs that drives it.                                 *)
(*                                                                         *)
(* A Rust `char` is modelled by its Unicode scalar value (a natural        *)
(* number), a `String`/`&str` by the sequence of its chars.                *)
(***************************************************************************)
EXTENDS Naturals, Sequences, FiniteSets, TLC

(***************************************************************************)
(* Characters.                                                             *)
(***************************************************************************)

\* The scalar value of the character written `s` (control characters are
\* written by their usual names).
CharCode(s) ==
    CASE s = "NUL" -> 0
      [] s = "TAB" -> 9
      [] s = "LF"  -> 10
      [] s = "CR"  -> 13
      [] s = "ESC" -> 27
      [] s = " "   -> 32
      [] s = "QUOTE" -> 34
      [] s = "%"   -> 37
      [] s = "+"   -> 43
      [] s = ","   -> 44
      [] s = "-"   -> 45
      [] s = "."   -> 46
      [] s = "0"   -> 48
      [] s = "1"   -> 49
      [] s = "2"   -> 50
      [] s = "3"   -> 51
      [] s = "4"   -> 52
      [] s = "5"   -> 53
      [] s = "6"   -> 54
      [] s = "7"   -> 55
      [] s = "8"   -> 56
      [] s = "9"   -> 57
      [] s = "A"   -> 65
      [] s = "B"   -> 66
      [] s = "C"   -> 67
      [] s = "D"   -> 68
      [] s = "E"   -> 69
      [] s = "F"   -> 70
      [] s = "G"   -> 71
      [] s = "N"   -> 78
      [] s = "R"   -> 82
      [] s = "U"   -> 85
      [] s = "BACKSLASH" -> 92
      [] s = "a"   -> 97
      [] s = "b"   -> 98
      [] s = "c"   -> 99
      [] s = "d"   -> 100
      [] s = "e"   -> 101
      [] s = "f"   -> 102
      [] s = "g"   -> 103
      [] s = "n"   -> 110
      [] s = "o"   -> 111
      [] s = "r"   -> 114
      [] s = "s"   -> 115
      [] s = "t"   -> 116
      [] s = "u"   -> 117
      [] s = "x"   -> 120
      [] s = "{"   -> 123
      [] s = "}"   -> 125

\* The string whose characters are written in `names`, in order.
Str(names) == [i \in 1..Len(names) |-> CharCode(names[i])]

RECURSIVE Concat(_)
\* Concatenation of a sequence of strings.
Concat(ss) == IF ss = <<>> THEN <<>> ELSE Head(ss) \o Concat(Tail(ss))

(***************************************************************************)
(* mini_fmt: the instruction set.                                          *)
(***************************************************************************)

\* enum FmtStyle
FmtStyle == {"Str", "Repr", "ERepr"}

\* FmtType::Const(String)
Const(s) == [type |-> "Const", text |-> s]
\* FmtType::Value { style }
Value(style) == [type |-> "Value", style |-> style]
\* FmtType::IndexValue { id, style }
IndexValue(id, style) == [type |-> "IndexValue", id |-> id, style |-> style]

(***************************************************************************)
(* Fmtter::build.                                                          *)
(***************************************************************************)

\* Ok(Fmtter { args })
BuildOk(args) == [ok |-> TRUE, args |-> args, msg |-> "", detail |-> <<>>]
\* Err(String): the fixed text of the message and the formatted fragment
\* that follows (or precedes) it.
BuildErr(msg, detail) == [ok |-> FALSE, args |-> <<>>, msg |-> msg, detail |-> detail]

\* to_digit with the upper-case letters counted from 0 instead of 10.
ToDigit16_UpperFromZero(c) ==
    IF c >= 48 /\ c <= 57 THEN c - 48
    ELSE IF c >= 97 /\ c <= 102 THEN c - 87
    ELSE IF c >= 65 /\ c <= 70 THEN c - 65
    ELSE 0 - 1

\* char::to_digit(16), -1 for None.
ToDigit16(c) ==
    IF c >= 48 /\ c <= 57 THEN c - 48
    ELSE IF c >= 97 /\ c <= 102 THEN c - 87
    ELSE IF c >= 65 /\ c <= 70 THEN c - 55
    ELSE 0 - 1

RECURSIVE DigitsValue(_, _)
\* The radix-16 accumulation of from_str_radix over the digit characters
\* `ds`, starting from `acc`; -1 as soon as a character is not a digit.
DigitsValue(ds, acc) ==
    IF ds = <<>> THEN acc
    ELSE IF ToDigit16(Head(ds)) < 0 THEN 0 - 1
    ELSE DigitsValue(Tail(ds), acc * 16 + ToDigit16(Head(ds)))

RECURSIVE StripZeros(_)
\* The digits without their leading zeros.
StripZeros(ds) ==
    IF ds # <<>> /\ Head(ds) = 48 THEN StripZeros(Tail(ds)) ELSE ds

\* <unsigned type of `bits` bits>::from_str_radix(src, 16): the value, or -1
\* for Err.  An unsigned type accepts one leading '+' (not '-') when digits
\* follow it; a character that is not a digit is an error, and so is a value
\* that does not fit the type (more than bits/4 significant digits).
FromStrRadix16(src, bits) ==
    IF src = <<>> THEN 0 - 1
    ELSE IF Head(src) \in {43, 45} /\ Tail(src) = <<>> THEN 0 - 1
    ELSE LET digits == IF Head(src) = 43 THEN Tail(src) ELSE src IN
         IF \E k \in DOMAIN digits : ToDigit16(digits[k]) < 0 THEN 0 - 1
         ELSE IF Len(StripZeros(digits)) > bits \div 4 THEN 0 - 1
         ELSE DigitsValue(digits, 0)

\* A conversion that checks the upper limit only and lets surrogates pass.
IsChar_LimitOnly(v) == v <= 1114111

\* char::from_u32(v).is_some()
IsChar(v) == v <= 1114111 /\ ~(v >= 55296 /\ v <= 57343)

RECURSIVE LowerHex(_)
\* format!("{:x}", v)
LowerHex(v) ==
    LET d == v % 16
        c == IF d < 10 THEN 48 + d ELSE 87 + d
    IN  IF v < 16 THEN <<c>> ELSE Append(LowerHex(v \div 16), c)

\* The standard library the program is built with brings its own Unicode
\* tables, and src/ pins no toolchain.  std is the standard library of the
\* build, known by the version of Unicode of its tables
\* (core::char::UNICODE_VERSION).
VARIABLE std

\* A build whose tables are those of Unicode 14.0.
StdUnicode14 == [UNICODE_VERSION |-> <<14, 0, 0>>]
\* A build whose tables are those of Unicode 17.0.
StdUnicode17 == [UNICODE_VERSION |-> <<17, 0, 0>>]
\* The builds followed.
StdSamples == {StdUnicode14, StdUnicode17}

\* The ranges of the characters that are not printable: the general
\* categories Cc, Cf, Cs, Co, Cn, Zl, Zp and Zs but for the space (the tables
\* of core::unicode::printable), in Unicode 14.0.
NotPrintableRanges14 ==
    <<
       <<0, 31>>, <<127, 160>>, <<173, 173>>, <<888, 889>>, <<896, 899>>,
       <<907, 907>>, <<909, 909>>, <<930, 930>>, <<1328, 1328>>, <<1367, 1368>>,
       <<1419, 1420>>, <<1424, 1424>>, <<1480, 1487>>, <<1515, 1518>>, <<1525, 1541>>,
       <<1564, 1564>>, <<1757, 1757>>, <<1806, 1807>>, <<1867, 1868>>, <<1970, 1983>>,
       <<2043, 2044>>, <<2094, 2095>>, <<2111, 2111>>, <<2140, 2141>>, <<2143, 2143>>,
       <<2155, 2159>>, <<2191, 2199>>, <<2274, 2274>>, <<2436, 2436>>, <<2445, 2446>>,
       <<2449, 2450>>, <<2473, 2473>>, <<2481, 2481>>, <<2483, 2485>>, <<2490, 2491>>,
       <<2501, 2502>>, <<2505, 2506>>, <<2511, 2518>>, <<2520, 2523>>, <<2526, 2526>>,
       <<2532, 2533>>, <<2559, 2560>>, <<2564, 2564>>, <<2571, 2574>>, <<2577, 2578>>,
       <<2601, 2601>>, <<2609, 2609>>, <<2612, 2612>>, <<2615, 2615>>, <<2618, 2619>>,
       <<2621, 2621>>, <<2627, 2630>>, <<2633, 2634>>, <<2638, 2640>>, <<2642, 2648>>,
       <<2653, 2653>>, <<2655, 2661>>, <<2679, 2688>>, <<2692, 2692>>, <<2702, 2702>>,
       <<2706, 2706>>, <<2729, 2729>>, <<2737, 2737>>, <<2740, 2740>>, <<2746, 2747>>,
       <<2758, 2758>>, <<2762, 2762>>, <<2766, 2767>>, <<2769, 2783>>, <<2788, 2789>>,
       <<2802, 2808>>, <<2816, 2816>>, <<2820, 2820>>, <<2829, 2830>>, <<2833, 2834>>,
       <<2857, 2857>>, <<2865, 2865>>, <<2868, 2868>>, <<2874, 2875>>, <<2885, 2886>>,
       <<2889, 2890>>, <<2894, 2900>>, <<2904, 2907>>, <<2910, 2910>>, <<2916, 2917>>,
       <<2936, 2945>>, <<2948, 2948>>, <<2955, 2957>>, <<2961, 2961>>, <<2966, 2968>>,
       <<2971, 2971>>, <<2973, 2973>>, <<2976, 2978>>, <<2981, 2983>>, <<2987, 2989>>,
       <<3002, 3005>>, <<3011, 3013>>, <<3017, 3017>>, <<3022, 3023>>, <<3025, 3030>>,
       <<3032, 3045>>, <<3067, 3071>>, <<3085, 3085>>, <<3089, 3089>>, <<3113, 3113>>,
       <<3130, 3131>>, <<3141, 3141>>, <<3145, 3145>>, <<3150, 3156>>, <<3159, 3159>>,
       <<3163, 3164>>, <<3166, 3167>>, <<3172, 3173>>, <<3184, 3190>>, <<3213, 3213>>,
       <<3217, 3217>>, <<3241, 3241>>, <<3252, 3252>>, <<3258, 3259>>, <<3269, 3269>>,
       <<3273, 3273>>, <<3278, 3284>>, <<3287, 3292>>, <<3295, 3295>>, <<3300, 3301>>,
       <<3312, 3312>>, <<3315, 3327>>, <<3341, 3341>>, <<3345, 3345>>, <<3397, 3397>>,
       <<3401, 3401>>, <<3408, 3411>>, <<3428, 3429>>, <<3456, 3456>>, <<3460, 3460>>,
       <<3479, 3481>>, <<3506, 3506>>, <<3516, 3516>>, <<3518, 3519>>, <<3527, 3529>>,
       <<3531, 3534>>, <<3541, 3541>>, <<3543, 3543>>, <<3552, 3557>>, <<3568, 3569>>,
       <<3573, 3584>>, <<3643, 3646>>, <<3676, 3712>>, <<3715, 3715>>, <<3717, 3717>>,
       <<3723, 3723>>, <<3748, 3748>>, <<3750, 3750>>, <<3774, 3775>>, <<3781, 3781>>,
       <<3783, 3783>>, <<3790, 3791>>, <<3802, 3803>>, <<3808, 3839>>, <<3912, 3912>>,
       <<3949, 3952>>, <<3992, 3992>>, <<4029, 4029>>, <<4045, 4045>>, <<4059, 4095>>,
       <<4294, 4294>>, <<4296, 4300>>, <<4302, 4303>>, <<4681, 4681>>, <<4686, 4687>>,
       <<4695, 4695>>, <<4697, 4697>>, <<4702, 4703>>, <<4745, 4745>>, <<4750, 4751>>,
       <<4785, 4785>>, <<4790, 4791>>, <<4799, 4799>>, <<4801, 4801>>, <<4806, 4807>>,
       <<4823, 4823>>, <<4881, 4881>>, <<4886, 4887>>, <<4955, 4956>>, <<4989, 4991>>,
       <<5018, 5023>>, <<5110, 5111>>, <<5118, 5119>>, <<5760, 5760>>, <<5789, 5791>>,
       <<5881, 5887>>, <<5910, 5918>>, <<5943, 5951>>, <<5972, 5983>>, <<5997, 5997>>,
       <<6001, 6001>>, <<6004, 6015>>, <<6110, 6111>>, <<6122, 6127>>, <<6138, 6143>>,
       <<6158, 6158>>, <<6170, 6175>>, <<6265, 6271>>, <<6315, 6319>>, <<6390, 6399>>,
       <<6431, 6431>>, <<6444, 6447>>, <<6460, 6463>>, <<6465, 6467>>, <<6510, 6511>>,
       <<6517, 6527>>, <<6572, 6575>>, <<6602, 6607>>, <<6619, 6621>>, <<6684, 6685>>,
       <<6751, 6751>>, <<6781, 6782>>, <<6794, 6799>>, <<6810, 6815>>, <<6830, 6831>>,
       <<6863, 6911>>, <<6989, 6991>>, <<7039, 7039>>, <<7156, 7163>>, <<7224, 7226>>,
       <<7242, 7244>>, <<7305, 7311>>, <<7355, 7356>>, <<7368, 7375>>, <<7419, 7423>>,
       <<7958, 7959>>, <<7966, 7967>>, <<8006, 8007>>, <<8014, 8015>>, <<8024, 8024>>,
       <<8026, 8026>>, <<8028, 8028>>, <<8030, 8030>>, <<8062, 8063>>, <<8117, 8117>>,
       <<8133, 8133>>, <<8148, 8149>>, <<8156, 8156>>, <<8176, 8177>>, <<8181, 8181>>,
       <<8191, 8207>>, <<8232, 8239>>, <<8287, 8303>>, <<8306, 8307>>, <<8335, 8335>>,
       <<8349, 8351>>, <<8385, 8399>>, <<8433, 8447>>, <<8588, 8591>>, <<9255, 9279>>,
       <<9291, 9311>>, <<11124, 11125>>, <<11158, 11158>>, <<11508, 11512>>, <<11558, 11558>>,
       <<11560, 11564>>, <<11566, 11567>>, <<11624, 11630>>, <<11633, 11646>>, <<11671, 11679>>,
       <<11687, 11687>>, <<11695, 11695>>, <<11703, 11703>>, <<11711, 11711>>, <<11719, 11719>>,
       <<11727, 11727>>, <<11735, 11735>>, <<11743, 11743>>, <<11870, 11903>>, <<11930, 11930>>,
       <<12020, 12031>>, <<12246, 12271>>, <<12284, 12288>>, <<12352, 12352>>, <<12439, 12440>>,
       <<12544, 12548>>, <<12592, 12592>>, <<12687, 12687>>, <<12772, 12783>>, <<12831, 12831>>,
       <<42125, 42127>>, <<42183, 42191>>, <<42540, 42559>>, <<42744, 42751>>, <<42955, 42959>>,
       <<42962, 42962>>, <<42964, 42964>>, <<42970, 42993>>, <<43053, 43055>>, <<43066, 43071>>,
       <<43128, 43135>>, <<43206, 43213>>, <<43226, 43231>>, <<43348, 43358>>, <<43389, 43391>>,
       <<43470, 43470>>, <<43482, 43485>>, <<43519, 43519>>, <<43575, 43583>>, <<43598, 43599>>,
       <<43610, 43611>>, <<43715, 43738>>, <<43767, 43776>>, <<43783, 43784>>, <<43791, 43792>>,
       <<43799, 43807>>, <<43815, 43815>>, <<43823, 43823>>, <<43884, 43887>>, <<44014, 44015>>,
       <<44026, 44031>>, <<55204, 55215>>, <<55239, 55242>>, <<55292, 63743>>, <<64110, 64111>>,
       <<64218, 64255>>, <<64263, 64274>>, <<64280, 64284>>, <<64311, 64311>>, <<64317, 64317>>,
       <<64319, 64319>>, <<64322, 64322>>, <<64325, 64325>>, <<64451, 64466>>, <<64912, 64913>>,
       <<64968, 64974>>, <<64976, 65007>>, <<65050, 65055>>, <<65107, 65107>>, <<65127, 65127>>,
       <<65132, 65135>>, <<65141, 65141>>, <<65277, 65280>>, <<65471, 65473>>, <<65480, 65481>>,
       <<65488, 65489>>, <<65496, 65497>>, <<65501, 65503>>, <<65511, 65511>>, <<65519, 65531>>,
       <<65534, 65535>>, <<65548, 65548>>, <<65575, 65575>>, <<65595, 65595>>, <<65598, 65598>>,
       <<65614, 65615>>, <<65630, 65663>>, <<65787, 65791>>, <<65795, 65798>>, <<65844, 65846>>,
       <<65935, 65935>>, <<65949, 65951>>, <<65953, 65999>>, <<66046, 66175>>, <<66205, 66207>>,
       <<66257, 66271>>, <<66300, 66303>>, <<66340, 66348>>, <<66379, 66383>>, <<66427, 66431>>,
       <<66462, 66462>>, <<66500, 66503>>, <<66518, 66559>>, <<66718, 66719>>, <<66730, 66735>>,
       <<66772, 66775>>, <<66812, 66815>>, <<66856, 66863>>, <<66916, 66926>>, <<66939, 66939>>,
       <<66955, 66955>>, <<66963, 66963>>, <<66966, 66966>>, <<66978, 66978>>, <<66994, 66994>>,
       <<67002, 67002>>, <<67005, 67071>>, <<67383, 67391>>, <<67414, 67423>>, <<67432, 67455>>,
       <<67462, 67462>>, <<67505, 67505>>, <<67515, 67583>>, <<67590, 67591>>, <<67593, 67593>>,
       <<67638, 67638>>, <<67641, 67643>>, <<67645, 67646>>, <<67670, 67670>>, <<67743, 67750>>,
       <<67760, 67807>>, <<67827, 67827>>, <<67830, 67834>>, <<67868, 67870>>, <<67898, 67902>>,
       <<67904, 67967>>, <<68024, 68027>>, <<68048, 68049>>, <<68100, 68100>>, <<68103, 68107>>,
       <<68116, 68116>>, <<68120, 68120>>, <<68150, 68151>>, <<68155, 68158>>, <<68169, 68175>>,
       <<68185, 68191>>, <<68256, 68287>>, <<68327, 68330>>, <<68343, 68351>>, <<68406, 68408>>,
       <<68438, 68439>>, <<68467, 68471>>, <<68498, 68504>>, <<68509, 68520>>, <<68528, 68607>>,
       <<68681, 68735>>, <<68787, 68799>>, <<68851, 68857>>, <<68904, 68911>>, <<68922, 69215>>,
       <<69247, 69247>>, <<69290, 69290>>, <<69294, 69295>>, <<69298, 69375>>, <<69416, 69423>>,
       <<69466, 69487>>, <<69514, 69551>>, <<69580, 69599>>, <<69623, 69631>>, <<69710, 69713>>,
       <<69750, 69758>>, <<69821, 69821>>, <<69827, 69839>>, <<69865, 69871>>, <<69882, 69887>>,
       <<69941, 69941>>, <<69960, 69967>>, <<70007, 70015>>, <<70112, 70112>>, <<70133, 70143>>,
       <<70162, 70162>>, <<70207, 70271>>, <<70279, 70279>>, <<70281, 70281>>, <<70286, 70286>>,
       <<70302, 70302>>, <<70314, 70319>>, <<70379, 70383>>, <<70394, 70399>>, <<70404, 70404>>,
       <<70413, 70414>>, <<70417, 70418>>, <<70441, 70441>>, <<70449, 70449>>, <<70452, 70452>>,
       <<70458, 70458>>, <<70469, 70470>>, <<70473, 70474>>, <<70478, 70479>>, <<70481, 70486>>,
       <<70488, 70492>>, <<70500, 70501>>, <<70509, 70511>>, <<70517, 70655>>, <<70748, 70748>>,
       <<70754, 70783>>, <<70856, 70863>>, <<70874, 71039>>, <<71094, 71095>>, <<71134, 71167>>,
       <<71237, 71247>>, <<71258, 71263>>, <<71277, 71295>>, <<71354, 71359>>, <<71370, 71423>>,
       <<71451, 71452>>, <<71468, 71471>>, <<71495, 71679>>, <<71740, 71839>>, <<71923, 71934>>,
       <<71943, 71944>>, <<71946, 71947>>, <<71956, 71956>>, <<71959, 71959>>, <<71990, 71990>>,
       <<71993, 71994>>, <<72007, 72015>>, <<72026, 72095>>, <<72104, 72105>>, <<72152, 72153>>,
       <<72165, 72191>>, <<72264, 72271>>, <<72355, 72367>>, <<72441, 72703>>, <<72713, 72713>>,
       <<72759, 72759>>, <<72774, 72783>>, <<72813, 72815>>, <<72848, 72849>>, <<72872, 72872>>,
       <<72887, 72959>>, <<72967, 72967>>, <<72970, 72970>>, <<73015, 73017>>, <<73019, 73019>>,
       <<73022, 73022>>, <<73032, 73039>>, <<73050, 73055>>, <<73062, 73062>>, <<73065, 73065>>,
       <<73103, 73103>>, <<73106, 73106>>, <<73113, 73119>>, <<73130, 73439>>, <<73465, 73647>>,
       <<73649, 73663>>, <<73714, 73726>>, <<74650, 74751>>, <<74863, 74863>>, <<74869, 74879>>,
       <<75076, 77711>>, <<77811, 77823>>, <<78895, 82943>>, <<83527, 92159>>, <<92729, 92735>>,
       <<92767, 92767>>, <<92778, 92781>>, <<92863, 92863>>, <<92874, 92879>>, <<92910, 92911>>,
       <<92918, 92927>>, <<92998, 93007>>, <<93018, 93018>>, <<93026, 93026>>, <<93048, 93052>>,
       <<93072, 93759>>, <<93851, 93951>>, <<94027, 94030>>, <<94088, 94094>>, <<94112, 94175>>,
       <<94181, 94191>>, <<94194, 94207>>, <<100344, 100351>>, <<101590, 101631>>, <<101641, 110575>>,
       <<110580, 110580>>, <<110588, 110588>>, <<110591, 110591>>, <<110883, 110927>>, <<110931, 110947>>,
       <<110952, 110959>>, <<111356, 113663>>, <<113771, 113775>>, <<113789, 113791>>, <<113801, 113807>>,
       <<113818, 113819>>, <<113824, 118527>>, <<118574, 118575>>, <<118599, 118607>>, <<118724, 118783>>,
       <<119030, 119039>>, <<119079, 119080>>, <<119155, 119162>>, <<119275, 119295>>, <<119366, 119519>>,
       <<119540, 119551>>, <<119639, 119647>>, <<119673, 119807>>, <<119893, 119893>>, <<119965, 119965>>,
       <<119968, 119969>>, <<119971, 119972>>, <<119975, 119976>>, <<119981, 119981>>, <<119994, 119994>>,
       <<119996, 119996>>, <<120004, 120004>>, <<120070, 120070>>, <<120075, 120076>>, <<120085, 120085>>,
       <<120093, 120093>>, <<120122, 120122>>, <<120127, 120127>>, <<120133, 120133>>, <<120135, 120137>>,
       <<120145, 120145>>, <<120486, 120487>>, <<120780, 120781>>, <<121484, 121498>>, <<121504, 121504>>,
       <<121520, 122623>>, <<122655, 122879>>, <<122887, 122887>>, <<122905, 122906>>, <<122914, 122914>>,
       <<122917, 122917>>, <<122923, 123135>>, <<123181, 123183>>, <<123198, 123199>>, <<123210, 123213>>,
       <<123216, 123535>>, <<123567, 123583>>, <<123642, 123646>>, <<123648, 124895>>, <<124903, 124903>>,
       <<124908, 124908>>, <<124911, 124911>>, <<124927, 124927>>, <<125125, 125126>>, <<125143, 125183>>,
       <<125260, 125263>>, <<125274, 125277>>, <<125280, 126064>>, <<126133, 126208>>, <<126270, 126463>>,
       <<126468, 126468>>, <<126496, 126496>>, <<126499, 126499>>, <<126501, 126502>>, <<126504, 126504>>,
       <<126515, 126515>>, <<126520, 126520>>, <<126522, 126522>>, <<126524, 126529>>, <<126531, 126534>>,
       <<126536, 126536>>, <<126538, 126538>>, <<126540, 126540>>, <<126544, 126544>>, <<126547, 126547>>,
       <<126549, 126550>>, <<126552, 126552>>, <<126554, 126554>>, <<126556, 126556>>, <<126558, 126558>>,
       <<126560, 126560>>, <<126563, 126563>>, <<126565, 126566>>, <<126571, 126571>>, <<126579, 126579>>,
       <<126584, 126584>>, <<126589, 126589>>, <<126591, 126591>>, <<126602, 126602>>, <<126620, 126624>>,
       <<126628, 126628>>, <<126634, 126634>>, <<126652, 126703>>, <<126706, 126975>>, <<127020, 127023>>,
       <<127124, 127135>>, <<127151, 127152>>, <<127168, 127168>>, <<127184, 127184>>, <<127222, 127231>>,
       <<127406, 127461>>, <<127491, 127503>>, <<127548, 127551>>, <<127561, 127567>>, <<127570, 127583>>,
       <<127590, 127743>>, <<128728, 128732>>, <<128749, 128751>>, <<128765, 128767>>, <<128884, 128895>>,
       <<128985, 128991>>, <<129004, 129007>>, <<129009, 129023>>, <<129036, 129039>>, <<129096, 129103>>,
       <<129114, 129119>>, <<129160, 129167>>, <<129198, 129199>>, <<129202, 129279>>, <<129620, 129631>>,
       <<129646, 129647>>, <<129653, 129655>>, <<129661, 129663>>, <<129671, 129679>>, <<129709, 129711>>,
       <<129723, 129727>>, <<129734, 129743>>, <<129754, 129759>>, <<129768, 129775>>, <<129783, 129791>>,
       <<129939, 129939>>, <<129995, 130031>>, <<130042, 131071>>, <<173792, 173823>>, <<177977, 177983>>,
       <<178206, 178207>>, <<183970, 183983>>, <<191457, 194559>>, <<195102, 196607>>, <<201547, 917759>>,
       <<918000, 1114111>>
    >>

\* The same in Unicode 17.0.
NotPrintableRanges17 ==
    <<
       <<0, 31>>, <<127, 160>>, <<173, 173>>, <<888, 889>>, <<896, 899>>,
       <<907, 907>>, <<909, 909>>, <<930, 930>>, <<1328, 1328>>, <<1367, 1368>>,
       <<1419, 1420>>, <<1424, 1424>>, <<1480, 1487>>, <<1515, 1518>>, <<1525, 1541>>,
       <<1564, 1564>>, <<1757, 1757>>, <<1806, 1807>>, <<1867, 1868>>, <<1970, 1983>>,
       <<2043, 2044>>, <<2094, 2095>>, <<2111, 2111>>, <<2140, 2141>>, <<2143, 2143>>,
       <<2155, 2159>>, <<2192, 2198>>, <<2274, 2274>>, <<2436, 2436>>, <<2445, 2446>>,
       <<2449, 2450>>, <<2473, 2473>>, <<2481, 2481>>, <<2483, 2485>>, <<2490, 2491>>,
       <<2501, 2502>>, <<2505, 2506>>, <<2511, 2518>>, <<2520, 2523>>, <<2526, 2526>>,
       <<2532, 2533>>, <<2559, 2560>>, <<2564, 2564>>, <<2571, 2574>>, <<2577, 2578>>,
       <<2601, 2601>>, <<2609, 2609>>, <<2612, 2612>>, <<2615, 2615>>, <<2618, 2619>>,
       <<2621, 2621>>, <<2627, 2630>>, <<2633, 2634>>, <<2638, 2640>>, <<2642, 2648>>,
       <<2653, 2653>>, <<2655, 2661>>, <<2679, 2688>>, <<2692, 2692>>, <<2702, 2702>>,
       <<2706, 2706>>, <<2729, 2729>>, <<2737, 2737>>, <<2740, 2740>>, <<2746, 2747>>,
       <<2758, 2758>>, <<2762, 2762>>, <<2766, 2767>>, <<2769, 2783>>, <<2788, 2789>>,
       <<2802, 2808>>, <<2816, 2816>>, <<2820, 2820>>, <<2829, 2830>>, <<2833, 2834>>,
       <<2857, 2857>>, <<2865, 2865>>, <<2868, 2868>>, <<2874, 2875>>, <<2885, 2886>>,
       <<2889, 2890>>, <<2894, 2900>>, <<2904, 2907>>, <<2910, 2910>>, <<2916, 2917>>,
       <<2936, 2945>>, <<2948, 2948>>, <<2955, 2957>>, <<2961, 2961>>, <<2966, 2968>>,
       <<2971, 2971>>, <<2973, 2973>>, <<2976, 2978>>, <<2981, 2983>>, <<2987, 2989>>,
       <<3002, 3005>>, <<3011, 3013>>, <<3017, 3017>>, <<3022, 3023>>, <<3025, 3030>>,
       <<3032, 3045>>, <<3067, 3071>>, <<3085, 3085>>, <<3089, 3089>>, <<3113, 3113>>,
       <<3130, 3131>>, <<3141, 3141>>, <<3145, 3145>>, <<3150, 3156>>, <<3159, 3159>>,
       <<3163, 3163>>, <<3166, 3167>>, <<3172, 3173>>, <<3184, 3190>>, <<3213, 3213>>,
       <<3217, 3217>>, <<3241, 3241>>, <<3252, 3252>>, <<3258, 3259>>, <<3269, 3269>>,
       <<3273, 3273>>, <<3278, 3284>>, <<3287, 3291>>, <<3295, 3295>>, <<3300, 3301>>,
       <<3312, 3312>>, <<3316, 3327>>, <<3341, 3341>>, <<3345, 3345>>, <<3397, 3397>>,
       <<3401, 3401>>, <<3408, 3411>>, <<3428, 3429>>, <<3456, 3456>>, <<3460, 3460>>,
       <<3479, 3481>>, <<3506, 3506>>, <<3516, 3516>>, <<3518, 3519>>, <<3527, 3529>>,
       <<3531, 3534>>, <<3541, 3541>>, <<3543, 3543>>, <<3552, 3557>>, <<3568, 3569>>,
       <<3573, 3584>>, <<3643, 3646>>, <<3676, 3712>>, <<3715, 3715>>, <<3717, 3717>>,
       <<3723, 3723>>, <<3748, 3748>>, <<3750, 3750>>, <<3774, 3775>>, <<3781, 3781>>,
       <<3783, 3783>>, <<3791, 3791>>, <<3802, 3803>>, <<3808, 3839>>, <<3912, 3912>>,
       <<3949, 3952>>, <<3992, 3992>>, <<4029, 4029>>, <<4045, 4045>>, <<4059, 4095>>,
       <<4294, 4294>>, <<4296, 4300>>, <<4302, 4303>>, <<4681, 4681>>, <<4686, 4687>>,
       <<4695, 4695>>, <<4697, 4697>>, <<4702, 4703>>, <<4745, 4745>>, <<4750, 4751>>,
       <<4785, 4785>>, <<4790, 4791>>, <<4799, 4799>>, <<4801, 4801>>, <<4806, 4807>>,
       <<4823, 4823>>, <<4881, 4881>>, <<4886, 4887>>, <<4955, 4956>>, <<4989, 4991>>,
       <<5018, 5023>>, <<5110, 5111>>, <<5118, 5119>>, <<5760, 5760>>, <<5789, 5791>>,
       <<5881, 5887>>, <<5910, 5918>>, <<5943, 5951>>, <<5972, 5983>>, <<5997, 5997>>,
       <<6001, 6001>>, <<6004, 6015>>, <<6110, 6111>>, <<6122, 6127>>, <<6138, 6143>>,
       <<6158, 6158>>, <<6170, 6175>>, <<6265, 6271>>, <<6315, 6319>>, <<6390, 6399>>,
       <<6431, 6431>>, <<6444, 6447>>, <<6460, 6463>>, <<6465, 6467>>, <<6510, 6511>>,
       <<6517, 6527>>, <<6572, 6575>>, <<6602, 6607>>, <<6619, 6621>>, <<6684, 6685>>,
       <<6751, 6751>>, <<6781, 6782>>, <<6794, 6799>>, <<6810, 6815>>, <<6830, 6831>>,
       <<6878, 6879>>, <<6892, 6911>>, <<6989, 6989>>, <<7156, 7163>>, <<7224, 7226>>,
       <<7242, 7244>>, <<7307, 7311>>, <<7355, 7356>>, <<7368, 7375>>, <<7419, 7423>>,
       <<7958, 7959>>, <<7966, 7967>>, <<8006, 8007>>, <<8014, 8015>>, <<8024, 8024>>,
       <<8026, 8026>>, <<8028, 8028>>, <<8030, 8030>>, <<8062, 8063>>, <<8117, 8117>>,
       <<8133, 8133>>, <<8148, 8149>>, <<8156, 8156>>, <<8176, 8177>>, <<8181, 8181>>,
       <<8191, 8207>>, <<8232, 8239>>, <<8287, 8303>>, <<8306, 8307>>, <<8335, 8335>>,
       <<8349, 8351>>, <<8386, 8399>>, <<8433, 8447>>, <<8588, 8591>>, <<9258, 9279>>,
       <<9291, 9311>>, <<11124, 11125>>, <<11508, 11512>>, <<11558, 11558>>, <<11560, 11564>>,
       <<11566, 11567>>, <<11624, 11630>>, <<11633, 11646>>, <<11671, 11679>>, <<11687, 11687>>,
       <<11695, 11695>>, <<11703, 11703>>, <<11711, 11711>>, <<11719, 11719>>, <<11727, 11727>>,
       <<11735, 11735>>, <<11743, 11743>>, <<11870, 11903>>, <<11930, 11930>>, <<12020, 12031>>,
       <<12246, 12271>>, <<12288, 12288>>, <<12352, 12352>>, <<12439, 12440>>, <<12544, 12548>>,
       <<12592, 12592>>, <<12687, 12687>>, <<12774, 12782>>, <<12831, 12831>>, <<42125, 42127>>,
       <<42183, 42191>>, <<42540, 42559>>, <<42744, 42751>>, <<42973, 42992>>, <<43053, 43055>>,
       <<43066, 43071>>, <<43128, 43135>>, <<43206, 43213>>, <<43226, 43231>>, <<43348, 43358>>,
       <<43389, 43391>>, <<43470, 43470>>, <<43482, 43485>>, <<43519, 43519>>, <<43575, 43583>>,
       <<43598, 43599>>, <<43610, 43611>>, <<43715, 43738>>, <<43767, 43776>>, <<43783, 43784>>,
       <<43791, 43792>>, <<43799, 43807>>, <<43815, 43815>>, <<43823, 43823>>, <<43884, 43887>>,
       <<44014, 44015>>, <<44026, 44031>>, <<55204, 55215>>, <<55239, 55242>>, <<55292, 63743>>,
       <<64110, 64111>>, <<64218, 64255>>, <<64263, 64274>>, <<64280, 64284>>, <<64311, 64311>>,
       <<64317, 64317>>, <<64319, 64319>>, <<64322, 64322>>, <<64325, 64325>>, <<64976, 65007>>,
       <<65050, 65055>>, <<65107, 65107>>, <<65127, 65127>>, <<65132, 65135>>, <<65141, 65141>>,
       <<65277, 65280>>, <<65471, 65473>>, <<65480, 65481>>, <<65488, 65489>>, <<65496, 65497>>,
       <<65501, 65503>>, <<65511, 65511>>, <<65519, 65531>>, <<65534, 65535>>, <<65548, 65548>>,
       <<65575, 65575>>, <<65595, 65595>>, <<65598, 65598>>, <<65614, 65615>>, <<65630, 65663>>,
       <<65787, 65791>>, <<65795, 65798>>, <<65844, 65846>>, <<65935, 65935>>, <<65949, 65951>>,
       <<65953, 65999>>, <<66046, 66175>>, <<66205, 66207>>, <<66257, 66271>>, <<66300, 66303>>,
       <<66340, 66348>>, <<66379, 66383>>, <<66427, 66431>>, <<66462, 66462>>, <<66500, 66503>>,
       <<66518, 66559>>, <<66718, 66719>>, <<66730, 66735>>, <<66772, 66775>>, <<66812, 66815>>,
       <<66856, 66863>>, <<66916, 66926>>, <<66939, 66939>>, <<66955, 66955>>, <<66963, 66963>>,
       <<66966, 66966>>, <<66978, 66978>>, <<66994, 66994>>, <<67002, 67002>>, <<67005, 67007>>,
       <<67060, 67071>>, <<67383, 67391>>, <<67414, 67423>>, <<67432, 67455>>, <<67462, 67462>>,
       <<67505, 67505>>, <<67515, 67583>>, <<67590, 67591>>, <<67593, 67593>>, <<67638, 67638>>,
       <<67641, 67643>>, <<67645, 67646>>, <<67670, 67670>>, <<67743, 67750>>, <<67760, 67807>>,
       <<67827, 67827>>, <<67830, 67834>>, <<67868, 67870>>, <<67898, 67902>>, <<67930, 67967>>,
       <<68024, 68027>>, <<68048, 68049>>, <<68100, 68100>>, <<68103, 68107>>, <<68116, 68116>>,
       <<68120, 68120>>, <<68150, 68151>>, <<68155, 68158>>, <<68169, 68175>>, <<68185, 68191>>,
       <<68256, 68287>>, <<68327, 68330>>, <<68343, 68351>>, <<68406, 68408>>, <<68438, 68439>>,
       <<68467, 68471>>, <<68498, 68504>>, <<68509, 68520>>, <<68528, 68607>>, <<68681, 68735>>,
       <<68787, 68799>>, <<68851, 68857>>, <<68904, 68911>>, <<68922, 68927>>, <<68966, 68968>>,
       <<68998, 69005>>, <<69008, 69215>>, <<69247, 69247>>, <<69290, 69290>>, <<69294, 69295>>,
       <<69298, 69313>>, <<69320, 69327>>, <<69337, 69369>>, <<69416, 69423>>, <<69466, 69487>>,
       <<69514, 69551>>, <<69580, 69599>>, <<69623, 69631>>, <<69710, 69713>>, <<69750, 69758>>,
       <<69821, 69821>>, <<69827, 69839>>, <<69865, 69871>>, <<69882, 69887>>, <<69941, 69941>>,
       <<69960, 69967>>, <<70007, 70015>>, <<70112, 70112>>, <<70133, 70143>>, <<70162, 70162>>,
       <<70210, 70271>>, <<70279, 70279>>, <<70281, 70281>>, <<70286, 70286>>, <<70302, 70302>>,
       <<70314, 70319>>, <<70379, 70383>>, <<70394, 70399>>, <<70404, 70404>>, <<70413, 70414>>,
       <<70417, 70418>>, <<70441, 70441>>, <<70449, 70449>>, <<70452, 70452>>, <<70458, 70458>>,
       <<70469, 70470>>, <<70473, 70474>>, <<70478, 70479>>, <<70481, 70486>>, <<70488, 70492>>,
       <<70500, 70501>>, <<70509, 70511>>, <<70517, 70527>>, <<70538, 70538>>, <<70540, 70541>>,
       <<70543, 70543>>, <<70582, 70582>>, <<70593, 70593>>, <<70595, 70596>>, <<70598, 70598>>,
       <<70603, 70603>>, <<70614, 70614>>, <<70617, 70624>>, <<70627, 70655>>, <<70748, 70748>>,
       <<70754, 70783>>, <<70856, 70863>>, <<70874, 71039>>, <<71094, 71095>>, <<71134, 71167>>,
       <<71237, 71247>>, <<71258, 71263>>, <<71277, 71295>>, <<71354, 71359>>, <<71370, 71375>>,
       <<71396, 71423>>, <<71451, 71452>>, <<71468, 71471>>, <<71495, 71679>>, <<71740, 71839>>,
       <<71923, 71934>>, <<71943, 71944>>, <<71946, 71947>>, <<71956, 71956>>, <<71959, 71959>>,
       <<71990, 71990>>, <<71993, 71994>>, <<72007, 72015>>, <<72026, 72095>>, <<72104, 72105>>,
       <<72152, 72153>>, <<72165, 72191>>, <<72264, 72271>>, <<72355, 72367>>, <<72441, 72447>>,
       <<72458, 72543>>, <<72552, 72639>>, <<72674, 72687>>, <<72698, 72703>>, <<72713, 72713>>,
       <<72759, 72759>>, <<72774, 72783>>, <<72813, 72815>>, <<72848, 72849>>, <<72872, 72872>>,
       <<72887, 72959>>, <<72967, 72967>>, <<72970, 72970>>, <<73015, 73017>>, <<73019, 73019>>,
       <<73022, 73022>>, <<73032, 73039>>, <<73050, 73055>>, <<73062, 73062>>, <<73065, 73065>>,
       <<73103, 73103>>, <<73106, 73106>>, <<73113, 73119>>, <<73130, 73135>>, <<73180, 73183>>,
       <<73194, 73439>>, <<73465, 73471>>, <<73489, 73489>>, <<73531, 73533>>, <<73563, 73647>>,
       <<73649, 73663>>, <<73714, 73726>>, <<74650, 74751>>, <<74863, 74863>>, <<74869, 74879>>,
       <<75076, 77711>>, <<77811, 77823>>, <<78896, 78911>>, <<78934, 78943>>, <<82939, 82943>>,
       <<83527, 90367>>, <<90426, 92159>>, <<92729, 92735>>, <<92767, 92767>>, <<92778, 92781>>,
       <<92863, 92863>>, <<92874, 92879>>, <<92910, 92911>>, <<92918, 92927>>, <<92998, 93007>>,
       <<93018, 93018>>, <<93026, 93026>>, <<93048, 93052>>, <<93072, 93503>>, <<93562, 93759>>,
       <<93851, 93855>>, <<93881, 93882>>, <<93908, 93951>>, <<94027, 94030>>, <<94088, 94094>>,
       <<94112, 94175>>, <<94181, 94191>>, <<94199, 94207>>, <<101590, 101630>>, <<101663, 101759>>,
       <<101875, 110575>>, <<110580, 110580>>, <<110588, 110588>>, <<110591, 110591>>, <<110883, 110897>>,
       <<110899, 110927>>, <<110931, 110932>>, <<110934, 110947>>, <<110952, 110959>>, <<111356, 113663>>,
       <<113771, 113775>>, <<113789, 113791>>, <<113801, 113807>>, <<113818, 113819>>, <<113824, 117759>>,
       <<118013, 118015>>, <<118452, 118457>>, <<118481, 118495>>, <<118513, 118527>>, <<118574, 118575>>,
       <<118599, 118607>>, <<118724, 118783>>, <<119030, 119039>>, <<119079, 119080>>, <<119155, 119162>>,
       <<119275, 119295>>, <<119366, 119487>>, <<119508, 119519>>, <<119540, 119551>>, <<119639, 119647>>,
       <<119673, 119807>>, <<119893, 119893>>, <<119965, 119965>>, <<119968, 119969>>, <<119971, 119972>>,
       <<119975, 119976>>, <<119981, 119981>>, <<119994, 119994>>, <<119996, 119996>>, <<120004, 120004>>,
       <<120070, 120070>>, <<120075, 120076>>, <<120085, 120085>>, <<120093, 120093>>, <<120122, 120122>>,
       <<120127, 120127>>, <<120133, 120133>>, <<120135, 120137>>, <<120145, 120145>>, <<120486, 120487>>,
       <<120780, 120781>>, <<121484, 121498>>, <<121504, 121504>>, <<121520, 122623>>, <<122655, 122660>>,
       <<122667, 122879>>, <<122887, 122887>>, <<122905, 122906>>, <<122914, 122914>>, <<122917, 122917>>,
       <<122923, 122927>>, <<122990, 123022>>, <<123024, 123135>>, <<123181, 123183>>, <<123198, 123199>>,
       <<123210, 123213>>, <<123216, 123535>>, <<123567, 123583>>, <<123642, 123646>>, <<123648, 124111>>,
       <<124154, 124367>>, <<124411, 124414>>, <<124416, 124607>>, <<124639, 124639>>, <<124662, 124669>>,
       <<124672, 124895>>, <<124903, 124903>>, <<124908, 124908>>, <<124911, 124911>>, <<124927, 124927>>,
       <<125125, 125126>>, <<125143, 125183>>, <<125260, 125263>>, <<125274, 125277>>, <<125280, 126064>>,
       <<126133, 126208>>, <<126270, 126463>>, <<126468, 126468>>, <<126496, 126496>>, <<126499, 126499>>,
       <<126501, 126502>>, <<126504, 126504>>, <<126515, 126515>>, <<126520, 126520>>, <<126522, 126522>>,
       <<126524, 126529>>, <<126531, 126534>>, <<126536, 126536>>, <<126538, 126538>>, <<126540, 126540>>,
       <<126544, 126544>>, <<126547, 126547>>, <<126549, 126550>>, <<126552, 126552>>, <<126554, 126554>>,
       <<126556, 126556>>, <<126558, 126558>>, <<126560, 126560>>, <<126563, 126563>>, <<126565, 126566>>,
       <<126571, 126571>>, <<126579, 126579>>, <<126584, 126584>>, <<126589, 126589>>, <<126591, 126591>>,
       <<126602, 126602>>, <<126620, 126624>>, <<126628, 126628>>, <<126634, 126634>>, <<126652, 126703>>,
       <<126706, 126975>>, <<127020, 127023>>, <<127124, 127135>>, <<127151, 127152>>, <<127168, 127168>>,
       <<127184, 127184>>, <<127222, 127231>>, <<127406, 127461>>, <<127491, 127503>>, <<127548, 127551>>,
       <<127561, 127567>>, <<127570, 127583>>, <<127590, 127743>>, <<128729, 128731>>, <<128749, 128751>>,
       <<128765, 128767>>, <<128986, 128991>>, <<129004, 129007>>, <<129009, 129023>>, <<129036, 129039>>,
       <<129096, 129103>>, <<129114, 129119>>, <<129160, 129167>>, <<129198, 129199>>, <<129212, 129215>>,
       <<129218, 129231>>, <<129241, 129279>>, <<129624, 129631>>, <<129646, 129647>>, <<129661, 129663>>,
       <<129675, 129677>>, <<129735, 129735>>, <<129737, 129740>>, <<129757, 129758>>, <<129771, 129774>>,
       <<129785, 129791>>, <<129939, 129939>>, <<130043, 131071>>, <<173792, 173823>>, <<178206, 178207>>,
       <<183982, 183983>>, <<191457, 191471>>, <<192094, 194559>>, <<195102, 196607>>, <<201547, 201551>>,
       <<210042, 917759>>, <<918000, 1114111>>
    >>

\* The ranges of the characters with the property Grapheme_Extend (the table
\* of core::unicode::unicode_data::grapheme_extend), in Unicode 14.0.
GraphemeExtendRanges14 ==
    <<
       <<768, 879>>, <<1155, 1161>>, <<1425, 1469>>, <<1471, 1471>>, <<1473, 1474>>,
       <<1476, 1477>>, <<1479, 1479>>, <<1552, 1562>>, <<1611, 1631>>, <<1648, 1648>>,
       <<1750, 1756>>, <<1759, 1764>>, <<1767, 1768>>, <<1770, 1773>>, <<1809, 1809>>,
       <<1840, 1866>>, <<1958, 1968>>, <<2027, 2035>>, <<2045, 2045>>, <<2070, 2073>>,
       <<2075, 2083>>, <<2085, 2087>>, <<2089, 2093>>, <<2137, 2139>>, <<2200, 2207>>,
       <<2250, 2273>>, <<2275, 2306>>, <<2362, 2362>>, <<2364, 2364>>, <<2369, 2376>>,
       <<2381, 2381>>, <<2385, 2391>>, <<2402, 2403>>, <<2433, 2433>>, <<2492, 2492>>,
       <<2494, 2494>>, <<2497, 2500>>, <<2509, 2509>>, <<2519, 2519>>, <<2530, 2531>>,
       <<2558, 2558>>, <<2561, 2562>>, <<2620, 2620>>, <<2625, 2626>>, <<2631, 2632>>,
       <<2635, 2637>>, <<2641, 2641>>, <<2672, 2673>>, <<2677, 2677>>, <<2689, 2690>>,
       <<2748, 2748>>, <<2753, 2757>>, <<2759, 2760>>, <<2765, 2765>>, <<2786, 2787>>,
       <<2810, 2815>>, <<2817, 2817>>, <<2876, 2876>>, <<2878, 2879>>, <<2881, 2884>>,
       <<2893, 2893>>, <<2901, 2903>>, <<2914, 2915>>, <<2946, 2946>>, <<3006, 3006>>,
       <<3008, 3008>>, <<3021, 3021>>, <<3031, 3031>>, <<3072, 3072>>, <<3076, 3076>>,
       <<3132, 3132>>, <<3134, 3136>>, <<3142, 3144>>, <<3146, 3149>>, <<3157, 3158>>,
       <<3170, 3171>>, <<3201, 3201>>, <<3260, 3260>>, <<3263, 3263>>, <<3266, 3266>>,
       <<3270, 3270>>, <<3276, 3277>>, <<3285, 3286>>, <<3298, 3299>>, <<3328, 3329>>,
       <<3387, 3388>>, <<3390, 3390>>, <<3393, 3396>>, <<3405, 3405>>, <<3415, 3415>>,
       <<3426, 3427>>, <<3457, 3457>>, <<3530, 3530>>, <<3535, 3535>>, <<3538, 3540>>,
       <<3542, 3542>>, <<3551, 3551>>, <<3633, 3633>>, <<3636, 3642>>, <<3655, 3662>>,
       <<3761, 3761>>, <<3764, 3772>>, <<3784, 3789>>, <<3864, 3865>>, <<3893, 3893>>,
       <<3895, 3895>>, <<3897, 3897>>, <<3953, 3966>>, <<3968, 3972>>, <<3974, 3975>>,
       <<3981, 3991>>, <<3993, 4028>>, <<4038, 4038>>, <<4141, 4144>>, <<4146, 4151>>,
       <<4153, 4154>>, <<4157, 4158>>, <<4184, 4185>>, <<4190, 4192>>, <<4209, 4212>>,
       <<4226, 4226>>, <<4229, 4230>>, <<4237, 4237>>, <<4253, 4253>>, <<4957, 4959>>,
       <<5906, 5908>>, <<5938, 5939>>, <<5970, 5971>>, <<6002, 6003>>, <<6068, 6069>>,
       <<6071, 6077>>, <<6086, 6086>>, <<6089, 6099>>, <<6109, 6109>>, <<6155, 6157>>,
       <<6159, 6159>>, <<6277, 6278>>, <<6313, 6313>>, <<6432, 6434>>, <<6439, 6440>>,
       <<6450, 6450>>, <<6457, 6459>>, <<6679, 6680>>, <<6683, 6683>>, <<6742, 6742>>,
       <<6744, 6750>>, <<6752, 6752>>, <<6754, 6754>>, <<6757, 6764>>, <<6771, 6780>>,
       <<6783, 6783>>, <<6832, 6862>>, <<6912, 6915>>, <<6964, 6970>>, <<6972, 6972>>,
       <<6978, 6978>>, <<7019, 7027>>, <<7040, 7041>>, <<7074, 7077>>, <<7080, 7081>>,
       <<7083, 7085>>, <<7142, 7142>>, <<7144, 7145>>, <<7149, 7149>>, <<7151, 7153>>,
       <<7212, 7219>>, <<7222, 7223>>, <<7376, 7378>>, <<7380, 7392>>, <<7394, 7400>>,
       <<7405, 7405>>, <<7412, 7412>>, <<7416, 7417>>, <<7616, 7679>>, <<8204, 8204>>,
       <<8400, 8432>>, <<11503, 11505>>, <<11647, 11647>>, <<11744, 11775>>, <<12330, 12335>>,
       <<12441, 12442>>, <<42607, 42610>>, <<42612, 42621>>, <<42654, 42655>>, <<42736, 42737>>,
       <<43010, 43010>>, <<43014, 43014>>, <<43019, 43019>>, <<43045, 43046>>, <<43052, 43052>>,
       <<43204, 43205>>, <<43232, 43249>>, <<43263, 43263>>, <<43302, 43309>>, <<43335, 43345>>,
       <<43392, 43394>>, <<43443, 43443>>, <<43446, 43449>>, <<43452, 43453>>, <<43493, 43493>>,
       <<43561, 43566>>, <<43569, 43570>>, <<43573, 43574>>, <<43587, 43587>>, <<43596, 43596>>,
       <<43644, 43644>>, <<43696, 43696>>, <<43698, 43700>>, <<43703, 43704>>, <<43710, 43711>>,
       <<43713, 43713>>, <<43756, 43757>>, <<43766, 43766>>, <<44005, 44005>>, <<44008, 44008>>,
       <<44013, 44013>>, <<64286, 64286>>, <<65024, 65039>>, <<65056, 65071>>, <<65438, 65439>>,
       <<66045, 66045>>, <<66272, 66272>>, <<66422, 66426>>, <<68097, 68099>>, <<68101, 68102>>,
       <<68108, 68111>>, <<68152, 68154>>, <<68159, 68159>>, <<68325, 68326>>, <<68900, 68903>>,
       <<69291, 69292>>, <<69446, 69456>>, <<69506, 69509>>, <<69633, 69633>>, <<69688, 69702>>,
       <<69744, 69744>>, <<69747, 69748>>, <<69759, 69761>>, <<69811, 69814>>, <<69817, 69818>>,
       <<69826, 69826>>, <<69888, 69890>>, <<69927, 69931>>, <<69933, 69940>>, <<70003, 70003>>,
       <<70016, 70017>>, <<70070, 70078>>, <<70089, 70092>>, <<70095, 70095>>, <<70191, 70193>>,
       <<70196, 70196>>, <<70198, 70199>>, <<70206, 70206>>, <<70367, 70367>>, <<70371, 70378>>,
       <<70400, 70401>>, <<70459, 70460>>, <<70462, 70462>>, <<70464, 70464>>, <<70487, 70487>>,
       <<70502, 70508>>, <<70512, 70516>>, <<70712, 70719>>, <<70722, 70724>>, <<70726, 70726>>,
       <<70750, 70750>>, <<70832, 70832>>, <<70835, 70840>>, <<70842, 70842>>, <<70845, 70845>>,
       <<70847, 70848>>, <<70850, 70851>>, <<71087, 71087>>, <<71090, 71093>>, <<71100, 71101>>,
       <<71103, 71104>>, <<71132, 71133>>, <<71219, 71226>>, <<71229, 71229>>, <<71231, 71232>>,
       <<71339, 71339>>, <<71341, 71341>>, <<71344, 71349>>, <<71351, 71351>>, <<71453, 71455>>,
       <<71458, 71461>>, <<71463, 71467>>, <<71727, 71735>>, <<71737, 71738>>, <<71984, 71984>>,
       <<71995, 71996>>, <<71998, 71998>>, <<72003, 72003>>, <<72148, 72151>>, <<72154, 72155>>,
       <<72160, 72160>>, <<72193, 72202>>, <<72243, 72248>>, <<72251, 72254>>, <<72263, 72263>>,
       <<72273, 72278>>, <<72281, 72283>>, <<72330, 72342>>, <<72344, 72345>>, <<72752, 72758>>,
       <<72760, 72765>>, <<72767, 72767>>, <<72850, 72871>>, <<72874, 72880>>, <<72882, 72883>>,
       <<72885, 72886>>, <<73009, 73014>>, <<73018, 73018>>, <<73020, 73021>>, <<73023, 73029>>,
       <<73031, 73031>>, <<73104, 73105>>, <<73109, 73109>>, <<73111, 73111>>, <<73459, 73460>>,
       <<92912, 92916>>, <<92976, 92982>>, <<94031, 94031>>, <<94095, 94098>>, <<94180, 94180>>,
       <<113821, 113822>>, <<118528, 118573>>, <<118576, 118598>>, <<119141, 119141>>, <<119143, 119145>>,
       <<119150, 119154>>, <<119163, 119170>>, <<119173, 119179>>, <<119210, 119213>>, <<119362, 119364>>,
       <<121344, 121398>>, <<121403, 121452>>, <<121461, 121461>>, <<121476, 121476>>, <<121499, 121503>>,
       <<121505, 121519>>, <<122880, 122886>>, <<122888, 122904>>, <<122907, 122913>>, <<122915, 122916>>,
       <<122918, 122922>>, <<123184, 123190>>, <<123566, 123566>>, <<123628, 123631>>, <<125136, 125142>>,
       <<125252, 125258>>, <<917536, 917631>>, <<917760, 917999>>
    >>

\* The same in Unicode 17.0.
GraphemeExtendRanges17 ==
    <<
       <<768, 879>>, <<1155, 1161>>, <<1425, 1469>>, <<1471, 1471>>, <<1473, 1474>>,
       <<1476, 1477>>, <<1479, 1479>>, <<1552, 1562>>, <<1611, 1631>>, <<1648, 1648>>,
       <<1750, 1756>>, <<1759, 1764>>, <<1767, 1768>>, <<1770, 1773>>, <<1809, 1809>>,
       <<1840, 1866>>, <<1958, 1968>>, <<2027, 2035>>, <<2045, 2045>>, <<2070, 2073>>,
       <<2075, 2083>>, <<2085, 2087>>, <<2089, 2093>>, <<2137, 2139>>, <<2199, 2207>>,
       <<2250, 2273>>, <<2275, 2306>>, <<2362, 2362>>, <<2364, 2364>>, <<2369, 2376>>,
       <<2381, 2381>>, <<2385, 2391>>, <<2402, 2403>>, <<2433, 2433>>, <<2492, 2492>>,
       <<2494, 2494>>, <<2497, 2500>>, <<2509, 2509>>, <<2519, 2519>>, <<2530, 2531>>,
       <<2558, 2558>>, <<2561, 2562>>, <<2620, 2620>>, <<2625, 2626>>, <<2631, 2632>>,
       <<2635, 2637>>, <<2641, 2641>>, <<2672, 2673>>, <<2677, 2677>>, <<2689, 2690>>,
       <<2748, 2748>>, <<2753, 2757>>, <<2759, 2760>>, <<2765, 2765>>, <<2786, 2787>>,
       <<2810, 2815>>, <<2817, 2817>>, <<2876, 2876>>, <<2878, 2879>>, <<2881, 2884>>,
       <<2893, 2893>>, <<2901, 2903>>, <<2914, 2915>>, <<2946, 2946>>, <<3006, 3006>>,
       <<3008, 3008>>, <<3021, 3021>>, <<3031, 3031>>, <<3072, 3072>>, <<3076, 3076>>,
       <<3132, 3132>>, <<3134, 3136>>, <<3142, 3144>>, <<3146, 3149>>, <<3157, 3158>>,
       <<3170, 3171>>, <<3201, 3201>>, <<3260, 3260>>, <<3263, 3264>>, <<3266, 3266>>,
       <<3270, 3272>>, <<3274, 3277>>, <<3285, 3286>>, <<3298, 3299>>, <<3328, 3329>>,
       <<3387, 3388>>, <<3390, 3390>>, <<3393, 3396>>, <<3405, 3405>>, <<3415, 3415>>,
       <<3426, 3427>>, <<3457, 3457>>, <<3530, 3530>>, <<3535, 3535>>, <<3538, 3540>>,
       <<3542, 3542>>, <<3551, 3551>>, <<3633, 3633>>, <<3636, 3642>>, <<3655, 3662>>,
       <<3761, 3761>>, <<3764, 3772>>, <<3784, 3790>>, <<3864, 3865>>, <<3893, 3893>>,
       <<3895, 3895>>, <<3897, 3897>>, <<3953, 3966>>, <<3968, 3972>>, <<3974, 3975>>,
       <<3981, 3991>>, <<3993, 4028>>, <<4038, 4038>>, <<4141, 4144>>, <<4146, 4151>>,
       <<4153, 4154>>, <<4157, 4158>>, <<4184, 4185>>, <<4190, 4192>>, <<4209, 4212>>,
       <<4226, 4226>>, <<4229, 4230>>, <<4237, 4237>>, <<4253, 4253>>, <<4957, 4959>>,
       <<5906, 5909>>, <<5938, 5940>>, <<5970, 5971>>, <<6002, 6003>>, <<6068, 6069>>,
       <<6071, 6077>>, <<6086, 6086>>, <<6089, 6099>>, <<6109, 6109>>, <<6155, 6157>>,
       <<6159, 6159>>, <<6277, 6278>>, <<6313, 6313>>, <<6432, 6434>>, <<6439, 6440>>,
       <<6450, 6450>>, <<6457, 6459>>, <<6679, 6680>>, <<6683, 6683>>, <<6742, 6742>>,
       <<6744, 6750>>, <<6752, 6752>>, <<6754, 6754>>, <<6757, 6764>>, <<6771, 6780>>,
       <<6783, 6783>>, <<6832, 6877>>, <<6880, 6891>>, <<6912, 6915>>, <<6964, 6973>>,
       <<6978, 6980>>, <<7019, 7027>>, <<7040, 7041>>, <<7074, 7077>>, <<7080, 7085>>,
       <<7142, 7142>>, <<7144, 7145>>, <<7149, 7149>>, <<7151, 7155>>, <<7212, 7219>>,
       <<7222, 7223>>, <<7376, 7378>>, <<7380, 7392>>, <<7394, 7400>>, <<7405, 7405>>,
       <<7412, 7412>>, <<7416, 7417>>, <<7616, 7679>>, <<8204, 8204>>, <<8400, 8432>>,
       <<11503, 11505>>, <<11647, 11647>>, <<11744, 11775>>, <<12330, 12335>>, <<12441, 12442>>,
       <<42607, 42610>>, <<42612, 42621>>, <<42654, 42655>>, <<42736, 42737>>, <<43010, 43010>>,
       <<43014, 43014>>, <<43019, 43019>>, <<43045, 43046>>, <<43052, 43052>>, <<43204, 43205>>,
       <<43232, 43249>>, <<43263, 43263>>, <<43302, 43309>>, <<43335, 43345>>, <<43347, 43347>>,
       <<43392, 43394>>, <<43443, 43443>>, <<43446, 43449>>, <<43452, 43453>>, <<43456, 43456>>,
       <<43493, 43493>>, <<43561, 43566>>, <<43569, 43570>>, <<43573, 43574>>, <<43587, 43587>>,
       <<43596, 43596>>, <<43644, 43644>>, <<43696, 43696>>, <<43698, 43700>>, <<43703, 43704>>,
       <<43710, 43711>>, <<43713, 43713>>, <<43756, 43757>>, <<43766, 43766>>, <<44005, 44005>>,
       <<44008, 44008>>, <<44013, 44013>>, <<64286, 64286>>, <<65024, 65039>>, <<65056, 65071>>,
       <<65438, 65439>>, <<66045, 66045>>, <<66272, 66272>>, <<66422, 66426>>, <<68097, 68099>>,
       <<68101, 68102>>, <<68108, 68111>>, <<68152, 68154>>, <<68159, 68159>>, <<68325, 68326>>,
       <<68900, 68903>>, <<68969, 68973>>, <<69291, 69292>>, <<69370, 69375>>, <<69446, 69456>>,
       <<69506, 69509>>, <<69633, 69633>>, <<69688, 69702>>, <<69744, 69744>>, <<69747, 69748>>,
       <<69759, 69761>>, <<69811, 69814>>, <<69817, 69818>>, <<69826, 69826>>, <<69888, 69890>>,
       <<69927, 69931>>, <<69933, 69940>>, <<70003, 70003>>, <<70016, 70017>>, <<70070, 70078>>,
       <<70080, 70080>>, <<70089, 70092>>, <<70095, 70095>>, <<70191, 70193>>, <<70196, 70199>>,
       <<70206, 70206>>, <<70209, 70209>>, <<70367, 70367>>, <<70371, 70378>>, <<70400, 70401>>,
       <<70459, 70460>>, <<70462, 70462>>, <<70464, 70464>>, <<70477, 70477>>, <<70487, 70487>>,
       <<70502, 70508>>, <<70512, 70516>>, <<70584, 70584>>, <<70587, 70592>>, <<70594, 70594>>,
       <<70597, 70597>>, <<70599, 70601>>, <<70606, 70608>>, <<70610, 70610>>, <<70625, 70626>>,
       <<70712, 70719>>, <<70722, 70724>>, <<70726, 70726>>, <<70750, 70750>>, <<70832, 70832>>,
       <<70835, 70840>>, <<70842, 70842>>, <<70845, 70845>>, <<70847, 70848>>, <<70850, 70851>>,
       <<71087, 71087>>, <<71090, 71093>>, <<71100, 71101>>, <<71103, 71104>>, <<71132, 71133>>,
       <<71219, 71226>>, <<71229, 71229>>, <<71231, 71232>>, <<71339, 71339>>, <<71341, 71341>>,
       <<71344, 71351>>, <<71453, 71453>>, <<71455, 71455>>, <<71458, 71461>>, <<71463, 71467>>,
       <<71727, 71735>>, <<71737, 71738>>, <<71984, 71984>>, <<71995, 71998>>, <<72003, 72003>>,
       <<72148, 72151>>, <<72154, 72155>>, <<72160, 72160>>, <<72193, 72202>>, <<72243, 72248>>,
       <<72251, 72254>>, <<72263, 72263>>, <<72273, 72278>>, <<72281, 72283>>, <<72330, 72342>>,
       <<72344, 72345>>, <<72544, 72544>>, <<72546, 72548>>, <<72550, 72550>>, <<72752, 72758>>,
       <<72760, 72765>>, <<72767, 72767>>, <<72850, 72871>>, <<72874, 72880>>, <<72882, 72883>>,
       <<72885, 72886>>, <<73009, 73014>>, <<73018, 73018>>, <<73020, 73021>>, <<73023, 73029>>,
       <<73031, 73031>>, <<73104, 73105>>, <<73109, 73109>>, <<73111, 73111>>, <<73459, 73460>>,
       <<73472, 73473>>, <<73526, 73530>>, <<73536, 73538>>, <<73562, 73562>>, <<78912, 78912>>,
       <<78919, 78933>>, <<90398, 90409>>, <<90413, 90415>>, <<92912, 92916>>, <<92976, 92982>>,
       <<94031, 94031>>, <<94095, 94098>>, <<94180, 94180>>, <<94192, 94193>>, <<113821, 113822>>,
       <<118528, 118573>>, <<118576, 118598>>, <<119141, 119145>>, <<119149, 119154>>, <<119163, 119170>>,
       <<119173, 119179>>, <<119210, 119213>>, <<119362, 119364>>, <<121344, 121398>>, <<121403, 121452>>,
       <<121461, 121461>>, <<121476, 121476>>, <<121499, 121503>>, <<121505, 121519>>, <<122880, 122886>>,
       <<122888, 122904>>, <<122907, 122913>>, <<122915, 122916>>, <<122918, 122922>>, <<123023, 123023>>,
       <<123184, 123190>>, <<123566, 123566>>, <<123628, 123631>>, <<124140, 124143>>, <<124398, 124399>>,
       <<124643, 124643>>, <<124646, 124646>>, <<124654, 124655>>, <<124661, 124661>>, <<125136, 125142>>,
       <<125252, 125258>>, <<917536, 917631>>, <<917760, 917999>>
    >>

\* The tables of the build.
NotPrintableRanges ==
    IF std = StdUnicode14 THEN NotPrintableRanges14 ELSE NotPrintableRanges17
GraphemeExtendRanges ==
    IF std = StdUnicode14 THEN GraphemeExtendRanges14 ELSE GraphemeExtendRanges17

\* c lies in one of the ranges of a table.
InRanges(c, ranges) == \E i \in DOMAIN ranges : c >= ranges[i][1] /\ c <= ranges[i][2]

\* char::is_grapheme_extended, by the tables of the build.
is_grapheme_extended(c) == c > 127 /\ InRanges(c, GraphemeExtendRanges)

\* core::unicode::printable::is_printable, by the tables of the build.
is_printable(c) ==
    \/ c >= 32 /\ c < 127
    \/ ~InRanges(c, NotPrintableRanges)

\* char::escape_debug_ext with escape_grapheme_extended: the named escapes,
\* the quote the caller asks for, and \u{..} for a character that extends a
\* grapheme or is not printable.
escape_debug_ext(c, escape_single_quote, escape_double_quote) ==
    CASE c = 0  -> <<92, 48>>
      [] c = 9  -> <<92, 116>>
      [] c = 10 -> <<92, 110>>
      [] c = 13 -> <<92, 114>>
      [] c = 92 -> <<92, 92>>
      [] c = 34 /\ escape_double_quote -> <<92, 34>>
      [] c = 39 /\ escape_single_quote -> <<92, 39>>
      [] OTHER  -> IF is_grapheme_extended(c) \/ ~is_printable(c)
                   THEN <<92, 117, 123>> \o LowerHex(c) \o <<125>>
                   ELSE <<c>>

\* format!("{:?}", c) for a char of a template: quoted, with the escapes of
\* char::escape_debug_ext; a double quote is left alone.
DebugChar(c) == <<39>> \o escape_debug_ext(c, TRUE, FALSE) \o <<39>>

RECURSIVE EscapeStr(_)
\* The body of format!("{:?}", s) for a string: every character with the
\* escapes of char::escape_debug_ext; a single quote is left alone.
EscapeStr(s) ==
    IF s = <<>> THEN <<>>
    ELSE escape_debug_ext(Head(s), FALSE, TRUE) \o EscapeStr(Tail(s))

\* format!("{:?}", s) for a string.
DebugStr(s) == <<34>> \o EscapeStr(s) \o <<34>>

\* add! without the test for an empty pending literal.
add_AlwaysFlush(args, last_val, val) == Append(Append(args, Const(last_val)), val)

\* macro add!: flush the pending literal, if it is not empty, then push val.
add(args, last_val, val) ==
    IF Len(last_val) # 0 THEN Append(Append(args, Const(last_val)), val)
    ELSE Append(args, val)

\* style_pat! whose last arm falls back to Display instead of failing.
style_pat_Fallback(c) ==
    CASE c = 114 -> "Repr"
      [] c = 82  -> "ERepr"
      [] OTHER   -> "Str"

\* macro style_pat!: the style of a style character, "" for none.
style_pat(c) ==
    CASE c = 115 -> "Str"
      [] c = 114 -> "Repr"
      [] c = 82  -> "ERepr"
      [] OTHER   -> ""

\* add_hex! for %u with the two reads of %x.
HexLen_ShortU(c) == CASE c = 120 -> 2 [] c = 117 -> 2 [] c = 85 -> 6

\* The number of characters add_hex! reads after the escape letter c.
HexLen(c) == CASE c = 120 -> 2 [] c = 117 -> 4 [] c = 85 -> 6

\* The width of the type add_hex! parses into for the escape letter c.
HexBits(c) == CASE c = 120 -> 8 [] c = 117 -> 16 [] c = 85 -> 32

\* The character pushed for the simple escapes %% %n %N %t %e.
SimpleEscape(c) ==
    CASE c = 37  -> 37
      [] c = 110 -> 10
      [] c = 78  -> 13
      [] c = 116 -> 9
      [] c = 101 -> 27

RECURSIVE BuildFrom(_, _, _, _)
\* The scanning loop of Fmtter::build with the iterator before the i-th
\* character of the template, the instructions `args` and the pending
\* literal `last_val`.
BuildFrom(fmtter, i, args, last_val) ==
    IF i > Len(fmtter)
    THEN BuildOk(IF Len(last_val) # 0 THEN Append(args, Const(last_val)) ELSE args)
    ELSE LET c == fmtter[i] IN
    IF c # 37 THEN BuildFrom(fmtter, i + 1, args, Append(last_val, c))
    ELSE IF i + 1 > Len(fmtter) THEN BuildErr("sequence in fmtter end", <<>>)
    ELSE LET next_c == fmtter[i + 1] IN
    IF next_c >= 48 /\ next_c <= 57
    THEN IF i + 2 > Len(fmtter) THEN BuildErr("sequence in fmtter end", <<>>)
         ELSE IF style_pat(fmtter[i + 2]) = ""
         THEN BuildErr("unknown sequence: ", DebugChar(fmtter[i + 2]))
         ELSE BuildFrom(fmtter, i + 3,
                        add(args, last_val,
                            IndexValue(next_c - 48, style_pat(fmtter[i + 2]))),
                        <<>>)
    ELSE IF next_c \in {37, 110, 78, 116, 101}
    THEN BuildFrom(fmtter, i + 2, args, Append(last_val, SimpleEscape(next_c)))
    ELSE IF next_c \in {120, 117, 85}
    THEN IF i + 1 + HexLen(next_c) > Len(fmtter)
         THEN BuildErr("sequence in fmtter end", <<>>)
         ELSE LET hex == SubSeq(fmtter, i + 2, i + 1 + HexLen(next_c))
                  val == FromStrRadix16(hex, HexBits(next_c))
              IN  IF val < 0 THEN BuildErr("build hex error: ", DebugStr(hex))
                  ELSE IF ~IsChar(val)
                  THEN BuildErr(" to char failed", LowerHex(val))
                  ELSE BuildFrom(fmtter, i + 2 + HexLen(next_c), args,
                                 Append(last_val, val))
    ELSE IF style_pat(next_c) = ""
    THEN BuildErr("unknown sequence: ", DebugChar(next_c))
    ELSE BuildFrom(fmtter, i + 2, add(args, last_val, Value(style_pat(next_c))), <<>>)

\* Fmtter::build(fmtter)
Build(fmtter) == BuildFrom(fmtter, 1, <<>>, <<>>)

(***************************************************************************)
(* Rendering.                                                              *)
(***************************************************************************)

\* FmtStyle::fmt_str for a string value: Display is the text itself, Debug
\* and the expanded Debug are the quoted, escaped text.
StyleFmtStr(style, str) ==
    CASE style = "Str"   -> str
      [] style = "Repr"  -> DebugStr(str)
      [] style = "ERepr" -> DebugStr(str)

\* fmt_str whose IndexValue arm moves the cursor as the Value arm does.
FmtTypeFmtStr_IndexAdvances(inst, idx, args) ==
    CASE inst.type = "Const" ->
           [ok |-> TRUE, out |-> inst.text, idx |-> idx]
      [] inst.type = "Value" ->
           IF idx + 1 \in DOMAIN args
           THEN [ok |-> TRUE, out |-> StyleFmtStr(inst.style, args[idx + 1]),
                 idx |-> idx + 1]
           ELSE [ok |-> FALSE, out |-> <<>>, idx |-> idx + 1]
      [] inst.type = "IndexValue" ->
           IF inst.id + 1 \in DOMAIN args
           THEN [ok |-> TRUE, out |-> StyleFmtStr(inst.style, args[inst.id + 1]),
                 idx |-> idx + 1]
           ELSE [ok |-> FALSE, out |-> <<>>, idx |-> idx + 1]

\* fmt_str that reads missing values with get(..).unwrap_or_default().
FmtTypeFmtStr_EmptyForMissing(inst, idx, args) ==
    CASE inst.type = "Const" ->
           [ok |-> TRUE, out |-> inst.text, idx |-> idx]
      [] inst.type = "Value" ->
           [ok |-> TRUE,
            out |-> IF idx + 1 \in DOMAIN args
                    THEN StyleFmtStr(inst.style, args[idx + 1]) ELSE <<>>,
            idx |-> idx + 1]
      [] inst.type = "IndexValue" ->
           [ok |-> TRUE,
            out |-> IF inst.id + 1 \in DOMAIN args
                    THEN StyleFmtStr(inst.style, args[inst.id + 1]) ELSE <<>>,
            idx |-> idx]

\* FmtType::fmt_str(&self, idx, args): the text of one instruction and the
\* cursor it leaves; ok is FALSE when the index expression panics (the
\* cursor of a Value is advanced before the value is indexed).
FmtTypeFmtStr(inst, idx, args) ==
    CASE inst.type = "Const" ->
           [ok |-> TRUE, out |-> inst.text, idx |-> idx]
      [] inst.type = "Value" ->
           IF idx + 1 \in DOMAIN args
           THEN [ok |-> TRUE, out |-> StyleFmtStr(inst.style, args[idx + 1]),
                 idx |-> idx + 1]
           ELSE [ok |-> FALSE, out |-> <<>>, idx |-> idx + 1]
      [] inst.type = "IndexValue" ->
           IF inst.id + 1 \in DOMAIN args
           THEN [ok |-> TRUE, out |-> StyleFmtStr(inst.style, args[inst.id + 1]),
                 idx |-> idx]
           ELSE [ok |-> FALSE, out |-> <<>>, idx |-> idx]

RECURSIVE FmtStrFrom(_, _, _, _, _)
\* The loop of Fmtter::fmt_str from instruction k on, with cursor idx and
\* the text res pushed so far; ok is FALSE when the call panics.
FmtStrFrom(args, k, idx, res, strs) ==
    IF k > Len(args) THEN [ok |-> TRUE, out |-> res]
    ELSE LET r == FmtTypeFmtStr(args[k], idx, strs) IN
         IF ~r.ok THEN [ok |-> FALSE, out |-> <<>>]
         ELSE FmtStrFrom(args, k + 1, r.idx, res \o r.out, strs)

\* Fmtter::fmt_str(&self, strs), run to its end.
FmtStr(args, strs) == FmtStrFrom(args, 1, 0, <<>>, strs)

(***************************************************************************)
(* Inputs.                                                                 *)
(***************************************************************************)

\* The longest template, counted in pieces, given to Fmtter::build.
MaxPieces == 3

\* The single characters templates are made of; U+0CF3 is one that has no
\* meaning in Unicode 14.0 and has one in later versions.
PieceChars ==
    {Str(<<c>>) : c \in {"%", "s", "r", "R", "n", "N", "t", "e",
                         "0", "a", "g", "+"}}
    \cup {<<3315>>}

\* The heads of the hexadecimal escapes.
PieceHeads == {Str(<<"%", "x">>), Str(<<"%", "u">>), Str(<<"%", "U">>)}

\* Runs of characters that follow %x, %u and %U.
PieceRuns ==
    { Str(<<"1", "C">>), Str(<<"+", "f">>), Str(<<"a", "g">>),
      Str(<<"d", "7", "f", "f">>), Str(<<"d", "8", "0", "0">>),
      Str(<<"D", "F", "F", "F">>), Str(<<"e", "0", "0", "0">>),
      Str(<<"1", "0", "f", "f", "f", "f">>),
      Str(<<"1", "1", "0", "0", "0", "0">>) }

\* Argument references written whole.
PieceArgs == {Str(<<"%", "s">>), Str(<<"%", "0", "r">>)}

Pieces == PieceChars \cup PieceHeads \cup PieceRuns \cup PieceArgs

\* The characters 0-9, a-f and A-F.
HexDigitChars ==
    {CharCode(c) : c \in {"0", "1", "2", "3", "4", "5", "6", "7", "8", "9",
                          "a", "b", "c", "d", "e", "f",
                          "A", "B", "C", "D", "E", "F"}}

\* Every %x escape with two hexadecimal digits, and every %u escape of the
\* block d800..dfff written in lower case.
RangeTemplates ==
    {<<37, 120, h1, h2>> : h1 \in HexDigitChars, h2 \in HexDigitChars}
    \cup
    {<<37, 117, 100, h1, h2, h3>> :
        h1 \in {CharCode(c) : c \in {"8", "9", "a", "b", "c", "d", "e", "f"}},
        h2 \in {CharCode(c) : c \in {"0", "1", "2", "3", "4", "5", "6", "7", "8",
                                     "9", "a", "b", "c", "d", "e", "f"}},
        h3 \in {CharCode(c) : c \in {"0", "1", "2", "3", "4", "5", "6", "7", "8",
                                     "9", "a", "b", "c", "d", "e", "f"}}}

\* The templates of the doc-tests of Fmtter and the default of main.
DocTemplates ==
    { Str(<<"a", "b", "%", "s", "d", "e">>),
      Str(<<"%", "s", ",", "%", "s", ",", "%", "0", "s", ",", "%", "1", "r", ",", "%", "s">>),
      Str(<<"%", "x", "1", "b">>),
      Str(<<"%", "x", "1", "C">>),
      Str(<<"%", "u", "0", "8", "7", "9">>),
      Str(<<"%", "U", "1", "0", "f", "f", "f", "f">>),
      Str(<<"%", "U", "1", "1", "0", "0", "0", "0">>),
      Str(<<"%", "s", "LF", "%", "s", "LF">>) }

(***************************************************************************)
(* State.                                                                  *)
(***************************************************************************)

VARIABLES
    phase,      \* where the program is
    source,     \* the template string of the -m option
    npieces,    \* the number of pieces the template string was written in
    built,      \* the Result<Fmtter, String> build returned
    call,       \* per thread, the frame of its Fmtter::fmt_str call
    format,     \* cfg.format: the compiled templates, in option order
    object,     \* the JSON object translate returned
    rows,       \* format_out: strs, the [dst, src] rows of trans_result
    res_lines,  \* format_out: the rendered strings pushed so far
    fi,         \* format_out: the index of the template of the outer loop
    ri,         \* format_out: the index of the row of the inner loop
    stdout,     \* the strings main has printed
    opt_line,   \* whether the --line option is given
    file,       \* the content of the file (or of stdin) named on the command line
    text,       \* the text read from the file or stdin
    long_empty_count,  \* cfg.long_empty_count: the -o option
    cfg_text,   \* cfg.text after filter_out_long_empty
    cfg_from_lang,     \* cfg.from_lang: the --from option, None or Some
    cfg_to_lang,       \* cfg.to_lang: the --to option, None or Some
    from_lang,  \* Translater.from_lang
    to_lang,    \* Translater.to_lang
    rand_num,   \* get_salt: the number random() returned
    salt,       \* Translater.salt
    payload,    \* translate: the payload built before the loop
    timeout_count,     \* translate: the posts that timed out
    error_count,       \* translate: the posts that failed otherwise
    posts       \* the posts sent so far, in order, each with its outcome

buildVars == <<source, npieces, built>>
mainVars == <<format, object, rows, res_lines, fi, ri, stdout>>
textVars == <<opt_line, file, text, long_empty_count, cfg_text>>
langVars == <<cfg_from_lang, cfg_to_lang, from_lang, to_lang>>
translateVars == <<rand_num, salt, payload, timeout_count, error_count, posts>>
restVars == <<textVars, langVars, translateVars>>
vars == <<std, phase, source, npieces, built, call,
          format, object, rows, res_lines, fi, ri, stdout,
          opt_line, file, text, long_empty_count, cfg_text,
          cfg_from_lang, cfg_to_lang, from_lang, to_lang,
          rand_num, salt, payload, timeout_count, error_count, posts>>

DEFAULT_FROM_LANG == Str(<<"a", "u", "t", "o">>)
DEFAULT_TO_LANG == Str(<<"a", "u", "t", "o">>)

\* Option<String>
None == <<>>
Some(x) == <<x>>

\* A Translater before any request: what Translater::new sets.
FreshTranslater ==
    /\ from_lang = DEFAULT_FROM_LANG
    /\ to_lang = DEFAULT_TO_LANG
    /\ salt = 0

\* The request of translate before translate is called.
TranslateIdle ==
    /\ rand_num = 0
    /\ payload = <<>>
    /\ timeout_count = 0
    /\ error_count = 0
    /\ posts = <<>>

\* The configuration, the Translater and the request before main reads or
\* sends anything: Config::default() and Translater::new.
RestIdle ==
    /\ opt_line = FALSE
    /\ file = <<>>
    /\ text = <<>>
    /\ long_empty_count = 2
    /\ cfg_text = <<>>
    /\ cfg_from_lang = None
    /\ cfg_to_lang = None
    /\ FreshTranslater
    /\ TranslateIdle

\* The variables of main before main runs.
MainIdle ==
    /\ format = <<>>
    /\ object = [has_result |-> FALSE, well_formed |-> TRUE, lines |-> <<>>]
    /\ rows = <<>>
    /\ res_lines = <<>>
    /\ fi = 0
    /\ ri = 0
    /\ stdout = <<>>

\* A thread that is not in fmt_str.
Idle == [status |-> "idle", strs |-> <<>>, pos |-> 0, idx |-> 0, res |-> <<>>,
         returned |-> FALSE, ret |-> <<>>]

\* The -m option as the user writes it: one of the documented templates, one
\* escape of the %x and %u ranges, or one more piece after the pieces written
\* so far.
WriteOpt ==
    /\ phase = "start"
    /\ \/ /\ npieces = 0
          /\ source' \in DocTemplates
          /\ npieces' = MaxPieces
       \/ /\ npieces = 0
          /\ source' \in RangeTemplates
          /\ npieces' = MaxPieces
       \/ /\ npieces < MaxPieces
          /\ \E p \in Pieces : source' = source \o p
          /\ npieces' = npieces + 1
    /\ UNCHANGED <<std, restVars, phase, built, call, mainVars>>

\* get_cfg, formatter.parse(): Fmtter::build applied to the template.
BuildCall ==
    /\ phase = "start"
    /\ built' = Build(source)
    /\ phase' = "built"
    /\ UNCHANGED <<std, restVars, source, npieces, call, mainVars>>

InitBuild ==
    /\ std \in StdSamples
    /\ phase = "start"
    /\ source = <<>>
    /\ npieces = 0
    /\ built = BuildErr("", <<>>)
    /\ call = <<>>
    /\ MainIdle
    /\ RestIdle

NextBuild == WriteOpt \/ BuildCall

SpecBuild == InitBuild /\ [][NextBuild]_vars

(***************************************************************************)
(* Renders of one compiled template by several threads.                    *)
(***************************************************************************)

\* The number of threads that render the shared template.
NumThreads == 2
\* The longest list of values given to a render.
MaxArgs == 3

Threads == 1..NumThreads

\* The values renders draw from, in the order of the lists.
ValuePool ==
    << Str(<<"a">>), Str(<<"b">>), Str(<<"c">>), Str(<<"QUOTE", "BACKSLASH">>),
       <<CharCode("LF"), 12288>> >>

\* The lists of values given to a render: runs of the pool.
ValueLists ==
    {SubSeq(ValuePool, i, j) : i \in 1..(MaxArgs + 1), j \in 0..MaxArgs}

\* The templates that are rendered.
RenderTemplates ==
    { Str(<<"a", "b", "%", "s", "d", "e">>),
      Str(<<"%", "s", ",", "%", "s", ",", "%", "0", "s", ",", "%", "1", "r", ",", "%", "s">>),
      Str(<<"%", "s", "LF", "%", "s", "LF">>),
      Str(<<"%", "0", "s", ",", "%", "s">>),
      Str(<<"%", "s", ",", "%", "s">>),
      Str(<<"%", "s", ",", "%", "1", "R">>),
      Str(<<"%", "x", "1", "b">>) }

\* The template the threads share is compiled.
BuildShared ==
    /\ phase = "start"
    /\ \E t \in RenderTemplates :
          /\ source' = t
          /\ built' = Build(t)
    /\ phase' = "built"
    /\ UNCHANGED <<std, restVars, npieces, call, mainVars>>

\* fmt_str with the cursor kept beside the instructions: a call goes on
\* from the cursor the thread's last call left.
FmtStrCall_KeepCursor(t, strs) ==
    /\ phase = "built" /\ built.ok
    /\ call[t].status \in {"idle", "done"}
    /\ call' = [call EXCEPT ![t] =
                   [status |-> "running", strs |-> strs, pos |-> 0,
                    idx |-> call[t].idx,
                    res |-> <<>>, returned |-> FALSE, ret |-> <<>>]]
    /\ UNCHANGED <<std, restVars, phase, buildVars, mainVars>>

\* Fmtter::fmt_str is entered by thread t with the values strs: an empty
\* result and the cursor at 0.
FmtStrCall(t, strs) ==
    /\ phase = "built" /\ built.ok
    /\ call[t].status \in {"idle", "done"}
    /\ call' = [call EXCEPT ![t] =
                   [status |-> "running", strs |-> strs, pos |-> 0, idx |-> 0,
                    res |-> <<>>, returned |-> FALSE, ret |-> <<>>]]
    /\ UNCHANGED <<std, restVars, phase, buildVars, mainVars>>

\* One turn of the loop of Fmtter::fmt_str in thread t: the next
\* instruction is formatted and pushed, or its index expression panics and
\* the call unwinds without a result.
FmtStrStep(t) ==
    /\ call[t].status = "running"
    /\ call[t].pos < Len(built.args)
    /\ LET r == FmtTypeFmtStr(built.args[call[t].pos + 1], call[t].idx, call[t].strs)
       IN  call' = [call EXCEPT ![t] =
                       IF r.ok
                       THEN [@ EXCEPT !.pos = @ + 1, !.idx = r.idx, !.res = @ \o r.out]
                       ELSE [@ EXCEPT !.status = "panicked", !.idx = r.idx]]
    /\ UNCHANGED <<std, restVars, phase, buildVars, mainVars>>

\* The loop of Fmtter::fmt_str in thread t is over: res is returned.
FmtStrReturn(t) ==
    /\ call[t].status = "running"
    /\ call[t].pos = Len(built.args)
    /\ call' = [call EXCEPT ![t] =
                   [@ EXCEPT !.status = "done", !.returned = TRUE, !.ret = call[t].res]]
    /\ UNCHANGED <<std, restVars, phase, buildVars, mainVars>>

InitRender ==
    /\ std = StdUnicode17
    /\ phase = "start"
    /\ source = <<>>
    /\ npieces = 0
    /\ built = BuildErr("", <<>>)
    /\ call = [t \in Threads |-> Idle]
    /\ MainIdle
    /\ RestIdle

NextRender ==
    \/ BuildShared
    \/ \E t \in Threads : \E strs \in ValueLists : FmtStrCall(t, strs)
    \/ \E t \in Threads : FmtStrStep(t)
    \/ \E t \in Threads : FmtStrReturn(t)

SpecRender == InitRender /\ [][NextRender]_vars

(***************************************************************************)
(* main: get_cfg, format_out and the printing of the result.               *)
(***************************************************************************)

\* The largest number of -m options.
MaxFmt == 2
\* The largest number of rows of trans_result.
MaxRows == 2

\* const DEFAULT_OUT_FORMAT
DEFAULT_OUT_FORMAT == Str(<<"%", "s", "LF", "%", "s", "LF">>)

\* The template strings given with -m.
OptTemplates ==
    { Str(<<"%", "s", ",", "%", "s">>), Str(<<"%", "1", "r">>),
      Str(<<"%", "2", "s">>), Str(<<"a", "%">>) }

\* The rows [dst, src] of a response.
Rows ==
    { <<Str(<<"a">>), Str(<<"b">>)>>, <<Str(<<"b">>), Str(<<"c">>)>>,
      <<Str(<<"c">>), Str(<<"a">>)>> }

\* What parsed.opt_str gives for --from and for --to.
FromOpts == {None, Some(Str(<<"e", "n">>))}
ToOpts == {None, Some(Str(<<"d", "e">>))}

\* What the -o and --line options give for cfg.long_empty_count and the
\* kind of read: neither option, -o 1, and --line.
TextOpts == {<<2, FALSE>>, <<1, FALSE>>, <<2, TRUE>>}

\* env!("CARGO_PKG_VERSION"): the version in the manifest the build is made
\* with; the versions followed.
PkgVersions ==
    {Str(<<"0", ".", "0", ".", "0">>),
     Str(<<"1", ".", "2", ".", "3", "-", "r", "c", ".", "1">>)}

\* get_cfg up to the file: the command line is parsed.  An option error and
\* --help call help, which ends the program, in a panic of config_path when
\* HOME is not set; --version prints the version and a line feed and ends the
\* program; a -o that is no number calls help.  Else -o, --line, --from and
\* --to are taken and the -m templates, the default one when there is none,
\* are compiled in order, and the first that fails calls help; then no file
\* argument, or more than one, calls help.
GetCfg ==
    /\ phase = "start"
    /\ \/ /\ phase' \in {"exit", "panic_home"}
          /\ UNCHANGED <<opt_line, long_empty_count, cfg_from_lang, cfg_to_lang, format,
                         stdout>>
       \/ /\ phase' = "exit"
          /\ \E version \in PkgVersions :
                stdout' = Append(stdout, version \o <<CharCode("LF")>>)
          /\ UNCHANGED <<opt_line, long_empty_count, cfg_from_lang, cfg_to_lang, format>>
       \/ /\ \E o \in TextOpts : long_empty_count' = o[1] /\ opt_line' = o[2]
          /\ cfg_from_lang' \in FromOpts
          /\ cfg_to_lang' \in ToOpts
          /\ \E n \in 0..MaxFmt : \E opt_m \in [1..n -> OptTemplates] :
                LET fmtters == IF opt_m = <<>> THEN <<DEFAULT_OUT_FORMAT>> ELSE opt_m
                    bad == {k \in DOMAIN fmtters : ~Build(fmtters[k]).ok}
                    upto == IF bad = {} THEN Len(fmtters)
                            ELSE (CHOOSE k \in bad : \A j \in bad : k <= j) - 1
                IN  /\ format' = [k \in 1..upto |-> Build(fmtters[k]).args]
                    /\ IF bad = {} THEN phase' \in {"reading", "exit", "panic_home"}
                       ELSE phase' \in {"exit", "panic_home"}
          /\ UNCHANGED stdout
    /\ UNCHANGED <<std, file, text, cfg_text, from_lang, to_lang, translateVars,
                   buildVars, call, object, rows, res_lines, fi, ri>>

\* main: get_id_and_key reads the two lines of $HOME/.baidufanyi_key, and
\* panics when HOME is not set, the file cannot be read or has fewer than two
\* lines.
GetIdAndKey ==
    /\ phase = "cfg"
    /\ \/ phase' = "keyed"
       \/ phase' = "panic_key"
    /\ UNCHANGED <<std, buildVars, call, mainVars, restVars>>

\* main: Translater::new(&id, &key), then set_from_lang and set_to_lang for
\* the options that were given.
NewTranslater ==
    /\ phase = "keyed"
    /\ salt' = 0
    /\ from_lang' = IF cfg_from_lang = None THEN DEFAULT_FROM_LANG ELSE cfg_from_lang[1]
    /\ to_lang' = IF cfg_to_lang = None THEN DEFAULT_TO_LANG ELSE cfg_to_lang[1]
    /\ phase' = "translater"
    /\ UNCHANGED <<std, textVars, cfg_from_lang, cfg_to_lang, rand_num, payload,
                   timeout_count, error_count, posts, buildVars, call, mainVars>>

\* format_out up to its loops: without trans_result it returns Err and main
\* panics; a trans_result that is no array of objects with the strings dst and
\* src panics in an unwrap; else the rows are collected and the loops start.
FormatOutEnter ==
    /\ phase = "translated"
    /\ IF object.has_result /\ object.well_formed
       THEN /\ rows' = object.lines
            /\ res_lines' = <<>>
            /\ fi' = 1
            /\ ri' = 1
            /\ phase' = "format_out"
       ELSE /\ phase' = "panic"
            /\ UNCHANGED <<rows, res_lines, fi, ri>>
    /\ UNCHANGED <<std, restVars, buildVars, call, format, object, stdout>>

\* The loops of format_out nested the other way: rows outside, templates
\* inside.
FormatOutPush_RowMajor ==
    /\ phase = "format_out"
    /\ ri <= Len(rows) /\ Len(format) > 0
    /\ LET r == FmtStr(format[fi], rows[ri]) IN
       IF r.ok
       THEN /\ res_lines' = Append(res_lines, r.out)
            /\ IF fi < Len(format)
               THEN fi' = fi + 1 /\ ri' = ri
               ELSE fi' = 1 /\ ri' = ri + 1
            /\ phase' = IF ri' > Len(rows) THEN "returned" ELSE phase
       ELSE /\ phase' = "panic"
            /\ UNCHANGED <<res_lines, fi, ri>>
    /\ UNCHANGED <<std, restVars, buildVars, call, format, object, rows, stdout>>

\* One turn of the inner loop of format_out: the row ri rendered by the
\* template fi is pushed; a render that panics ends the program.
FormatOutPush ==
    /\ phase = "format_out"
    /\ fi <= Len(format) /\ Len(rows) > 0
    /\ LET r == FmtStr(format[fi], rows[ri]) IN
       IF r.ok
       THEN /\ res_lines' = Append(res_lines, r.out)
            /\ IF ri < Len(rows)
               THEN ri' = ri + 1 /\ fi' = fi
               ELSE ri' = 1 /\ fi' = fi + 1
            /\ UNCHANGED <<phase>>
       ELSE /\ phase' = "panic"
            /\ UNCHANGED <<res_lines, fi, ri>>
    /\ UNCHANGED <<std, restVars, buildVars, call, format, object, rows, stdout>>

\* The loops of format_out are over: Ok(res_lines).
FormatOutReturn ==
    /\ phase = "format_out"
    /\ fi > Len(format) \/ Len(rows) = 0
    /\ phase' = "returned"
    /\ UNCHANGED <<std, restVars, buildVars, call, mainVars>>

\* main prints the next string of the result.
PrintLine ==
    /\ phase = "returned"
    /\ Len(stdout) < Len(res_lines)
    /\ stdout' = Append(stdout, res_lines[Len(stdout) + 1])
    /\ UNCHANGED <<std, restVars, phase, buildVars, call, format, object, rows, res_lines, fi, ri>>

(***************************************************************************)
(* traits: filter_out_long_empty, and the text get_cfg reads.              *)
(***************************************************************************)

\* The longest text read, in characters.
MaxText == 5
\* The largest -o option.
MaxCount == 4

\* char::is_whitespace: the characters of the Unicode property White_Space.
IsWhitespace(c) ==
    \/ c \in 9..13
    \/ c \in {32, 133, 160, 5760}
    \/ c \in 8192..8202
    \/ c \in {8232, 8233, 8239, 8287, 12288}

\* The test of the loop with < in the place of <=.
Keeps_Strict(continue_count, count) == continue_count < count

\* The test `continue_count <= count` of the loop.
Keeps(continue_count, count) == continue_count <= count

RECURSIVE FilterLoop(_, _, _, _, _)
\* The loop of filter_out_long_empty for count # 0, before the k-th
\* character of self, with the run counter and the result so far.
FilterLoop(self, k, count, continue_count, res) ==
    IF k > Len(self) THEN res
    ELSE LET cc == IF IsWhitespace(self[k]) THEN continue_count + 1 ELSE 0
         IN  FilterLoop(self, k + 1, count, cc,
                        IF Keeps(cc, count) THEN Append(res, self[k]) ELSE res)

\* The closure `filter` of the branch count = 0.
NotWhitespace(c) == ~IsWhitespace(c)

\* <&str as FilterOutLongEmpty>::filter_out_long_empty(&self, count)
filter_out_long_empty(self, count) ==
    IF count = 0 THEN SelectSeq(self, NotWhitespace)
    ELSE FilterLoop(self, 1, count, 0, <<>>)

\* The characters of the text read: two letters, the space, the line feed,
\* the ideographic space U+3000 and the zero width space U+200B (which is
\* not White_Space).
TextChars == {CharCode("a"), CharCode("b"), CharCode(" "), CharCode("LF"),
              12288, 8203}

\* The file as it is when the program reads it, written one character after
\* the other.
WriteFile ==
    /\ phase = "reading"
    /\ Len(file) < MaxText
    /\ \E c \in TextChars : file' = Append(file, c)
    /\ UNCHANGED <<std, phase, buildVars, call, mainVars, opt_line, text,
                   long_empty_count, cfg_text, langVars, translateVars>>

\* The first line of f with its line feed, or all of f when it has none.
FirstLine(f) ==
    LET feeds == {k \in DOMAIN f : f[k] = CharCode("LF")}
    IN  IF feeds = {} THEN f
        ELSE SubSeq(f, 1, CHOOSE k \in feeds : \A j \in feeds : k <= j)

\* cfg.text.clear(), then reader.read_to_string(&mut cfg.text), or with
\* --line reader.read_line(&mut cfg.text).
ReadText ==
    /\ phase = "reading"
    /\ text' = IF opt_line THEN FirstLine(file) ELSE file
    /\ phase' = "read"
    /\ UNCHANGED <<std, buildVars, call, mainVars, opt_line, file, long_empty_count,
                   cfg_text, langVars, translateVars>>

\* The file cannot be opened, or the read fails (the bytes are no UTF-8, or
\* an I/O error): the error is printed and the program ends with exit(3).
ReadError ==
    /\ phase = "reading"
    /\ phase' = "exit"
    /\ UNCHANGED <<std, buildVars, call, mainVars, restVars>>

\* get_cfg: cfg.text = (&*cfg.text).filter_out_long_empty(cfg.long_empty_count),
\* and get_cfg returns.
FilterText ==
    /\ phase = "read"
    /\ cfg_text' = filter_out_long_empty(text, long_empty_count)
    /\ phase' = "cfg"
    /\ UNCHANGED <<std, buildVars, call, mainVars, opt_line, file, text,
                   long_empty_count, langVars, translateVars>>

\* get_cfg has parsed the command line: the -o option (2 when it is absent)
\* and --line, given or not; the file is not read yet.
InitFilter ==
    /\ std = StdUnicode17
    /\ phase = "reading"
    /\ source = <<>>
    /\ npieces = 0
    /\ built = BuildErr("", <<>>)
    /\ call = <<>>
    /\ MainIdle
    /\ opt_line \in BOOLEAN
    /\ file = <<>>
    /\ text = <<>>
    /\ long_empty_count \in 0..MaxCount
    /\ cfg_text = <<>>
    /\ cfg_from_lang = None
    /\ cfg_to_lang = None
    /\ FreshTranslater
    /\ TranslateIdle

NextFilter == WriteFile \/ ReadText \/ ReadError \/ FilterText

SpecFilter == InitFilter /\ [][NextFilter]_vars

(***************************************************************************)
(* get_salt.                                                               *)
(***************************************************************************)

\* const MASK: u16
MASK == 32767
\* const BASE: u16 = MASK + 1
BASE == MASK + 1
\* The number of values of a u16.
U16 == 65536

RECURSIVE BitAnd(_, _)
\* a & b
BitAnd(a, b) ==
    IF a = 0 \/ b = 0 THEN 0
    ELSE 2 * BitAnd(a \div 2, b \div 2) + (IF a % 2 = 1 /\ b % 2 = 1 THEN 1 ELSE 0)

\* get_salt without the mask: the base added to the random number itself.
get_salt_NoMask(rand) ==
    [ok |-> rand + BASE < U16, val |-> (rand + BASE) % U16]

\* get_salt with random() = rand: (rand_num & MASK) + BASE in u16; ok is
\* FALSE when the addition overflows (a panic in a debug build, the wrapped
\* sum in a release build).
get_salt(rand) ==
    [ok |-> BitAnd(rand, MASK) + BASE < U16,
     val |-> (BitAnd(rand, MASK) + BASE) % U16]

\* random(): the high byte of the u16 drawn.
RandomHigh ==
    /\ phase = "start"
    /\ \E h \in 0..255 : rand_num' = 256 * h
    /\ phase' = "random_high"
    /\ UNCHANGED <<std, buildVars, call, mainVars, textVars, langVars,
                   salt, payload, timeout_count, error_count, posts>>

\* random(): the low byte of the u16 drawn.
RandomLow ==
    /\ phase = "random_high"
    /\ \E l \in 0..255 : rand_num' = rand_num + l
    /\ phase' = "random"
    /\ UNCHANGED <<std, buildVars, call, mainVars, textVars, langVars,
                   salt, payload, timeout_count, error_count, posts>>

\* Translater::update_salt: self.salt = get_salt()
UpdateSalt ==
    /\ phase = "random"
    /\ salt' = get_salt(rand_num).val
    /\ phase' = IF get_salt(rand_num).ok THEN "salted" ELSE "panic"
    /\ UNCHANGED <<std, buildVars, call, mainVars, textVars, langVars,
                   rand_num, payload, timeout_count, error_count, posts>>

InitSalt ==
    /\ std = StdUnicode17
    /\ phase = "start"
    /\ source = <<>>
    /\ npieces = 0
    /\ built = BuildErr("", <<>>)
    /\ call = <<>>
    /\ MainIdle
    /\ RestIdle

NextSalt == RandomHigh \/ RandomLow \/ UpdateSalt

SpecSalt == InitSalt /\ [][NextSalt]_vars

(***************************************************************************)
(* Translater::translate.                                                  *)
(***************************************************************************)

MAX_TIMEOUT_COUNT == 2
MAX_ERROR_COUNT == 2
\* The posts of one call the model follows; the loop itself has no such cap.
MaxPosts == 5

\* The id and the key main hands to Translater::new.
AppId == Str(<<"a", "b">>)
AppKey == Str(<<"b">>)

\* The texts translate is called with.
Messages == {<<>>, Str(<<"a">>), Str(<<"a", " ", "b">>)}
\* The random numbers update_salt draws.
RandSamples == {1, 32767, 32768}

RECURSIVE to_string(_)
\* u16::to_string: the decimal digits.
to_string(n) ==
    IF n < 10 THEN <<CharCode("0") + n>>
    ELSE Append(to_string(n \div 10), CharCode("0") + (n % 10))

\* Translater::get_sign: the md5 digest of id, message, salt and key
\* concatenated, kept as the text that is digested.
get_sign(message, s) ==
    [md5 |-> Concat(<<AppId, message, to_string(s), AppKey>>)]

\* Translater::build_payload on a Translater with these languages and
\* self.salt = s.
build_payload(message, from, to, s) ==
    [appid |-> AppId, q |-> message, from |-> from, to |-> to, salt |-> s,
     sign |-> get_sign(message, s)]

\* timeout_count >= MAX_TIMEOUT_COUNT, error_count >= MAX_ERROR_COUNT
Reached(count, max) == count >= max

\* translate is called: random() of get_salt returns one of the sampled
\* numbers.
Random ==
    /\ phase = "translater"
    /\ rand_num' \in RandSamples
    /\ phase' = "random"
    /\ UNCHANGED <<std, buildVars, call, mainVars, textVars, langVars,
                   salt, payload, timeout_count, error_count, posts>>

\* let payload = self.build_payload(message); the two counters start at 0.
BuildPayload ==
    /\ phase = "salted"
    /\ payload' = build_payload(cfg_text, from_lang, to_lang, salt)
    /\ timeout_count' = 0
    /\ error_count' = 0
    /\ phase' = "loop"
    /\ UNCHANGED <<std, buildVars, call, mainVars, textVars, langVars,
                   rand_num, salt, posts>>

\* A turn of the loop up to its .await: post(URL, HEADERS, &payload) sends
\* the request, and translate waits for the outcome.
Post ==
    /\ phase = "loop"
    /\ Len(posts) < MaxPosts
    /\ posts' = Append(posts, [payload |-> payload, outcome |-> "pending"])
    /\ phase' = "posted"
    /\ UNCHANGED <<std, buildVars, call, mainVars, textVars, langVars,
                   rand_num, salt, payload, timeout_count, error_count>>

\* The rest of the turn: the post returns a response or an error, and the
\* match on it breaks the loop, counts the error and panics at a limit, or
\* goes round again.
Await ==
    /\ phase = "posted"
    /\ \E outcome \in {"ok", "timeout", "error"} :
          LET t == IF outcome = "timeout" THEN timeout_count + 1 ELSE timeout_count
              e == IF outcome = "error" THEN error_count + 1 ELSE error_count
          IN  /\ posts' = [posts EXCEPT ![Len(posts)].outcome = outcome]
              /\ timeout_count' = t
              /\ error_count' = e
              /\ phase' = IF outcome = "ok" THEN "done"
                          ELSE IF Reached(t, MAX_TIMEOUT_COUNT) THEN "panic_timeout"
                          ELSE IF Reached(e, MAX_ERROR_COUNT) THEN "panic_error"
                          ELSE "loop"
    /\ UNCHANGED <<std, buildVars, call, mainVars, textVars, langVars,
                   rand_num, salt, payload>>

\* result.json::<JSONData>().await.expect("data to json error"): a body that
\* is no JSON object panics; else translate returns the object, which has no
\* trans_result, or a trans_result of rows, or one of another shape.
Json ==
    /\ phase = "done"
    /\ \/ phase' = "panic_json" /\ UNCHANGED object
       \/ /\ phase' = "translated"
          /\ \/ object' = [has_result |-> FALSE, well_formed |-> TRUE, lines |-> <<>>]
             \/ object' = [has_result |-> TRUE, well_formed |-> FALSE, lines |-> <<>>]
             \/ \E n \in 0..MaxRows : \E lines \in [1..n -> Rows] :
                   object' = [has_result |-> TRUE, well_formed |-> TRUE, lines |-> lines]
    /\ UNCHANGED <<std, buildVars, call, format, rows, res_lines, fi, ri, stdout, restVars>>

\* translate is about to be called with a text on a Translater whose
\* languages are set.
InitTranslate ==
    /\ std = StdUnicode17
    /\ phase = "translater"
    /\ source = <<>>
    /\ npieces = 0
    /\ built = BuildErr("", <<>>)
    /\ call = <<>>
    /\ MainIdle
    /\ opt_line = FALSE
    /\ file = <<>>
    /\ text = <<>>
    /\ long_empty_count = 2
    /\ cfg_text \in Messages
    /\ cfg_from_lang = None
    /\ cfg_to_lang = None
    /\ from_lang \in {DEFAULT_FROM_LANG, Str(<<"e", "n">>)}
    /\ to_lang \in {DEFAULT_TO_LANG, Str(<<"d", "e">>)}
    /\ salt = 0
    /\ TranslateIdle

NextTranslate == Random \/ UpdateSalt \/ BuildPayload \/ Post \/ Await \/ Json

SpecTranslate == InitTranslate /\ [][NextTranslate]_vars

\* translate runs on: each step of its own is taken once it is due.  The wait
\* for a post is not among them: post builds its Client with Client::new()
\* and sets no timeout, so the .await of a request that the server never
\* answers does not return, and neither does the read of a body that never
\* comes.
SpecTranslateFair ==
    SpecTranslate /\ WF_vars(Random \/ UpdateSalt \/ BuildPayload \/ Post)

(***************************************************************************)
(* main: get_cfg, translate, format_out and the printing.                  *)
(***************************************************************************)

\* The files the program is run on.
SampleFiles ==
    { Str(<<"a", " ", "b">>),
      Str(<<"a", " ", " ", " ", " ", "b", "LF", "LF", "LF", "LF", "c">>) }

\* Before main runs: Config::default(), and the file is there.
InitMain ==
    /\ std = StdUnicode17
    /\ phase = "start"
    /\ source = <<>>
    /\ npieces = 0
    /\ built = BuildErr("", <<>>)
    /\ call = <<>>
    /\ MainIdle
    /\ opt_line = FALSE
    /\ file \in SampleFiles
    /\ text = <<>>
    /\ long_empty_count = 2
    /\ cfg_text = <<>>
    /\ cfg_from_lang = None
    /\ cfg_to_lang = None
    /\ FreshTranslater
    /\ TranslateIdle

NextMain ==
    \/ GetCfg
    \/ ReadText
    \/ ReadError
    \/ FilterText
    \/ GetIdAndKey
    \/ NewTranslater
    \/ Random
    \/ UpdateSalt
    \/ BuildPayload
    \/ Post
    \/ Await
    \/ Json
    \/ FormatOutEnter
    \/ FormatOutPush
    \/ FormatOutReturn
    \/ PrintLine

SpecMain == InitMain /\ [][NextMain]_vars

(***************************************************************************)
(* Properties of Fmtter::build.                                            *)
(***************************************************************************)

\* The hexadecimal digits, by value.
HexLower == Str(<<"0", "1", "2", "3", "4", "5", "6", "7", "8", "9",
                  "a", "b", "c", "d", "e", "f">>)
HexUpper == Str(<<"0", "1", "2", "3", "4", "5", "6", "7", "8", "9",
                  "A", "B", "C", "D", "E", "F">>)
IsHexDigit(c) == \E k \in 1..16 : HexLower[k] = c \/ HexUpper[k] = c
HexDigitValue(c) == (CHOOSE k \in 1..16 : HexLower[k] = c \/ HexUpper[k] = c) - 1
AllHexDigits(run) == \A k \in DOMAIN run : IsHexDigit(run[k])

RECURSIVE RefHexValue(_)
\* The number a run of hexadecimal digits denotes.
RefHexValue(run) ==
    IF run = <<>> THEN 0
    ELSE 16 * RefHexValue(SubSeq(run, 1, Len(run) - 1)) + HexDigitValue(run[Len(run)])

\* The template up to and without its i-th character.
Before(i) == SubSeq(source, 1, i - 1)
\* The template after its i-th character.
After(i) == SubSeq(source, i + 1, Len(source))

\* The scan of the compiled template reaches an escape introducer at i:
\* the i-th character is '%' and all that precedes it compiles.
EscapeAt(i) == i \in DOMAIN source /\ source[i] = 37 /\ Build(Before(i)).ok

\* A hexadecimal escape starts at i and its whole run is in the template.
HexEscapeAt(i) ==
    /\ EscapeAt(i)
    /\ i + 1 <= Len(source)
    /\ source[i + 1] \in {120, 117, 85}
    /\ i + 1 + (CASE source[i + 1] = 120 -> 2 [] source[i + 1] = 117 -> 4
                  [] source[i + 1] = 85 -> 6) <= Len(source)

\* The run of the hexadecimal escape at i and the position of its last
\* character.
RunEnd(i) == i + 1 + (CASE source[i + 1] = 120 -> 2 [] source[i + 1] = 117 -> 4
                        [] source[i + 1] = 85 -> 6)
RunAt(i) == SubSeq(source, i + 2, RunEnd(i))

IsArg(inst) == inst.type \in {"Value", "IndexValue"}

\* The instructions a followed by b, a Const that ends a and a Const that
\* starts b made one.
Joined(a, b) ==
    IF a # <<>> /\ b # <<>> /\ a[Len(a)].type = "Const" /\ b[1].type = "Const"
    THEN SubSeq(a, 1, Len(a) - 1) \o <<Const(a[Len(a)].text \o b[1].text)>> \o Tail(b)
    ELSE a \o b
\* C1: a compiled template never holds two adjacent Const instructions nor
\* a Const with empty text; the literal text and literal escapes between two
\* argument instructions make exactly one Const: compiling a template cut at
\* an escape boundary gives the instructions of the two parts with the Const
\* at the end of the first and the Const at the start of the second made one.
C1_Coalesced ==
    (phase = "built" /\ built.ok) =>
        /\ \A k \in DOMAIN built.args :
              built.args[k].type = "Const" => built.args[k].text # <<>>
        /\ \A k \in 1..(Len(built.args) - 1) :
              ~(built.args[k].type = "Const" /\ built.args[k + 1].type = "Const")
        /\ \A i \in 0..Len(source) :
              (Build(SubSeq(source, 1, i)).ok /\ Build(After(i)).ok) =>
                  built.args = Joined(Build(SubSeq(source, 1, i)).args,
                                      Build(After(i)).args)
\* A template in which a literal escape and literal text stand side by
\* side has been compiled to a single Const.
C1_Witness ==
    /\ phase = "built" /\ built.ok
    /\ Len(built.args) = 1
    /\ built.args[1].type = "Const"
    /\ Len(built.args[1].text) >= 2
    /\ Len(source) > Len(built.args[1].text)

\* C4: when the whole run of a %x, %u or %U escape is there and some
\* character of it, the first included, is not a hexadecimal digit, build
\* fails with "build hex error" naming exactly the run.
C4_InvalidHexDigits ==
    phase = "built" =>
        \A i \in DOMAIN source :
            (HexEscapeAt(i) /\ ~AllHexDigits(RunAt(i))) =>
                /\ ~built.ok
                /\ built.msg = "build hex error: "
                /\ built.detail = DebugStr(RunAt(i))

\* The template ends inside the escape that starts at i.
TruncatedAt(i) ==
    /\ EscapeAt(i)
    /\ \/ i = Len(source)
       \/ i + 1 = Len(source) /\ source[i + 1] \in 48..57
       \/ i + 1 <= Len(source) /\ source[i + 1] \in {120, 117, 85} /\ ~HexEscapeAt(i)
\* C5: build fails with "sequence in fmtter end" when the template ends
\* right after a '%', after '%' and a digit, or inside the run of a %x, %u or
\* %U escape, whatever compiles before the escape and whatever the characters
\* of the run read so far.
C5_TruncatedSequence ==
    phase = "built" =>
        \A i \in DOMAIN source :
            TruncatedAt(i) =>
                /\ ~built.ok
                /\ built.msg = "sequence in fmtter end"
                /\ built.detail = <<>>
\* build has been given a template that ends inside the run of a
\* hexadecimal escape, after a character that is no hexadecimal digit, with
\* content that compiles before the escape.
C5_Witness ==
    /\ phase = "built"
    /\ \E i \in DOMAIN source :
          /\ i > 1 /\ TruncatedAt(i)
          /\ i + 2 <= Len(source)
          /\ source[i + 1] \in {120, 117, 85}
          /\ ~IsHexDigit(source[i + 2])

\* C6: for a hexadecimal escape whose run is all hexadecimal digits of
\* value v, build fails with "<v in hex> to char failed" exactly when v is a
\* surrogate (D800..DFFF) or above 10FFFF; otherwise the escape compiles.
C6_InvalidCodePoint ==
    phase = "built" =>
        \A i \in DOMAIN source :
            (HexEscapeAt(i) /\ AllHexDigits(RunAt(i))) =>
                LET v == RefHexValue(RunAt(i)) IN
                IF (v >= 55296 /\ v <= 57343) \/ v > 1114111
                THEN /\ ~built.ok
                     /\ built.msg = " to char failed"
                     /\ built.detail = LowerHex(v)
                ELSE Build(SubSeq(source, 1, RunEnd(i))).ok
\* A template with the escape of the last code point before the surrogates
\* has been compiled.
C6_Witness ==
    /\ phase = "built" /\ built.ok
    /\ \E i \in DOMAIN source :
          HexEscapeAt(i) /\ AllHexDigits(RunAt(i)) /\ RefHexValue(RunAt(i)) = 55295

RECURSIVE ConstText(_)
\* The literal text of the instructions, the argument instructions, and the
\* digits of a run without its sign.
ConstText(args) ==
    IF args = <<>> THEN <<>>
    ELSE (IF Head(args).type = "Const" THEN Head(args).text ELSE <<>>)
         \o ConstText(Tail(args))
ArgInstrs(args) == SelectSeq(args, IsArg)
RunDigits(run) == IF run[1] = 43 THEN Tail(run) ELSE run
\* C7: a compiled %x, %u or %U escape takes exactly the 2, 4 or 6 characters
\* after its letter and adds to the pending literal exactly the one character
\* whose code point is the radix-16 value of the run (of its digits after the
\* sign, when it starts with one), in either letter case; it adds no argument
\* instruction, and what follows the run is scanned as ordinary template
\* text.
C7_HexEscape ==
    phase = "built" =>
        \A i \in DOMAIN source :
            (HexEscapeAt(i) /\ Build(SubSeq(source, 1, RunEnd(i))).ok) =>
                LET pre  == Build(Before(i)).args
                    with == Build(SubSeq(source, 1, RunEnd(i))).args
                    rest == Build(After(RunEnd(i)))
                IN  /\ AllHexDigits(RunDigits(RunAt(i)))
                    /\ ConstText(with) =
                           Append(ConstText(pre), RefHexValue(RunDigits(RunAt(i))))
                    /\ ArgInstrs(with) = ArgInstrs(pre)
                    /\ built.ok = rest.ok
                    /\ built.msg = rest.msg
                    /\ built.detail = rest.detail
                    /\ built.ok => built.args = Joined(with, rest.args)
\* A template with an upper-case hexadecimal escape between two characters
\* has been compiled.
C7_Witness ==
    /\ phase = "built" /\ built.ok
    /\ \E i \in DOMAIN source :
          /\ i > 1 /\ HexEscapeAt(i) /\ RunEnd(i) < Len(source)
          /\ \E k \in DOMAIN RunAt(i) : RunAt(i)[k] \in 65..70

\* C8: build fails with "unknown sequence" naming the character when the
\* character after '%' is none of % n N t e x u U s r R 0..9, and when the
\* character after '%' and a digit is none of s r R.
C8_UnknownSequence ==
    phase = "built" =>
        \A i \in DOMAIN source :
            /\ ( /\ EscapeAt(i) /\ i + 1 <= Len(source)
                 /\ source[i + 1] \notin
                        {CharCode(c) : c \in {"%", "n", "N", "t", "e", "x", "u", "U",
                                              "s", "r", "R"}} \cup 48..57 ) =>
                   /\ ~built.ok
                   /\ built.msg = "unknown sequence: "
                   /\ built.detail = DebugChar(source[i + 1])
            /\ ( /\ EscapeAt(i) /\ i + 2 <= Len(source)
                 /\ source[i + 1] \in 48..57
                 /\ source[i + 2] \notin {CharCode(c) : c \in {"s", "r", "R"}} ) =>
                   /\ ~built.ok
                   /\ built.msg = "unknown sequence: "
                   /\ built.detail = DebugChar(source[i + 2])
\* build has been given a template with '%', a digit and a second digit.
C8_Witness ==
    /\ phase = "built" /\ ~built.ok
    /\ \E i \in DOMAIN source :
          /\ EscapeAt(i) /\ i + 2 <= Len(source)
          /\ source[i + 1] \in 48..57 /\ source[i + 2] \in 48..57

(***************************************************************************)
(* Properties of Fmtter::fmt_str.                                          *)
(***************************************************************************)

\* The number of Value instructions among the first k instructions.
ValuesBefore(args, k) == Cardinality({j \in 1..k : args[j].type = "Value"})

\* The value instruction k of the template reads from strs, 0 when it
\* reads outside strs.
ReadAt(args, k, strs) ==
    LET at == IF args[k].type = "Value" THEN ValuesBefore(args, k - 1) + 1
              ELSE args[k].id + 1
    IN  IF at \in DOMAIN strs THEN at ELSE 0

\* The text instruction k of the template stands for.
TextAt(args, k, strs) ==
    IF args[k].type = "Const" THEN args[k].text
    ELSE IF args[k].style = "Str" THEN strs[ReadAt(args, k, strs)]
    ELSE <<34>> \o EscapeStr(strs[ReadAt(args, k, strs)]) \o <<34>>

\* C2: in a call of fmt_str the cursor starts at 0 and, after any prefix of
\* the instructions, is the number of Value instructions of that prefix:
\* a Value reads values[cursor] and moves the cursor by one, a Const and an
\* IndexValue leave it; so "%0s,%s" on [a, b] gives "a,a" and
\* "%s,%s,%0s,%1r,%s" on [a, b, c] gives a,b,a,"b",c.
C2_Cursor ==
    \A t \in DOMAIN call :
        call[t].status \in {"running", "done"} =>
            /\ call[t].idx = ValuesBefore(built.args, call[t].pos)
            /\ call[t].res =
                   Concat([k \in 1..call[t].pos |-> TextAt(built.args, k, call[t].strs)])
            /\ ( /\ call[t].status = "done"
                 /\ source = Str(<<"%", "0", "s", ",", "%", "s">>)
                 /\ call[t].strs = <<Str(<<"a">>), Str(<<"b">>)>> ) =>
                   call[t].ret = Str(<<"a", ",", "a">>)
            /\ ( /\ call[t].status = "done"
                 /\ source = Str(<<"%", "s", ",", "%", "s", ",", "%", "0", "s", ",",
                                   "%", "1", "r", ",", "%", "s">>)
                 /\ call[t].strs = <<Str(<<"a">>), Str(<<"b">>), Str(<<"c">>)>> ) =>
                   call[t].ret = Str(<<"a", ",", "b", ",", "a", ",", "QUOTE", "b",
                                       "QUOTE", ",", "c">>)
\* A call on "%0s,%s" with [a, b] has returned.
C2_Witness ==
    /\ source = Str(<<"%", "0", "s", ",", "%", "s">>)
    /\ \E t \in DOMAIN call :
          /\ call[t].status = "done"
          /\ call[t].strs = <<Str(<<"a">>), Str(<<"b">>)>>
          /\ call[t].pos = 3 /\ call[t].idx = 1

\* Instruction k reads a value that strs does not have.
Missing(args, k, strs) == args[k].type # "Const" /\ ReadAt(args, k, strs) = 0
\* C3: a Value run with the cursor at or beyond the number of values, or an
\* IndexValue with such an index, ends the call in a panic at that
\* instruction: no string is returned, nothing stands in for the missing
\* value and no later instruction is run.
C3_FailFast ==
    \A t \in DOMAIN call :
        /\ call[t].status \in {"running", "done"} =>
              \A k \in 1..call[t].pos : ~Missing(built.args, k, call[t].strs)
        /\ call[t].status = "panicked" =>
              /\ call[t].pos < Len(built.args)
              /\ Missing(built.args, call[t].pos + 1, call[t].strs)
              /\ ~call[t].returned
              /\ ~FmtStr(built.args, call[t].strs).ok
        /\ call[t].returned => call[t].status = "done"
\* A call has panicked at an IndexValue after text was pushed.
C3_Witness ==
    \E t \in DOMAIN call :
        /\ call[t].status = "panicked"
        /\ call[t].res # <<>>
        /\ built.args[call[t].pos + 1].type = "IndexValue"

\* C9: rendering never changes the compiled template and keeps nothing from
\* one render to the next: however the calls of the threads interleave, each
\* starts with its cursor at 0 and returns the string the call returns when
\* it runs alone.
C9_Shared ==
    /\ [](\A t \in DOMAIN call :
            /\ (call[t].status = "running" /\ call[t].pos = 0) => call[t].idx = 0
            /\ call[t].status = "done" =>
                  /\ FmtStr(built.args, call[t].strs).ok
                  /\ call[t].ret = FmtStr(built.args, call[t].strs).out)
    /\ [][phase = "built" => built' = built]_vars
\* Two threads are inside fmt_str on the same template with different
\* values, both past their first Value and before their last instruction.
C9_Witness ==
    \E t, u \in DOMAIN call :
        /\ t # u
        /\ call[t].status = "running" /\ call[u].status = "running"
        /\ call[t].strs # call[u].strs
        /\ call[t].idx > 0 /\ call[u].idx > 0
        /\ call[t].pos < Len(built.args) /\ call[u].pos < Len(built.args)

(***************************************************************************)
(* Properties of format_out and main.                                      *)
(***************************************************************************)

\* C10: with T compiled templates and R rows format_out returns exactly T*R
\* strings, the string of template i and row j (counted from 0) at position
\* i*R + j: all rows of a template before every row of a later template, the
\* rows in the order of the response; main prints them in that order.
C10_TemplateMajor ==
    LET T == Len(format)
        R == Len(rows)
    IN  /\ phase \in {"format_out", "returned"} =>
              /\ \A i \in 0..(T - 1) : \A j \in 0..(R - 1) :
                    i * R + j + 1 <= Len(res_lines) =>
                        res_lines[i * R + j + 1] = FmtStr(format[i + 1], rows[j + 1]).out
              /\ Len(res_lines) <= T * R
        /\ phase = "returned" =>
              /\ Len(res_lines) = T * R
              /\ Len(stdout) <= Len(res_lines)
              /\ \A k \in DOMAIN stdout : stdout[k] = res_lines[k]
\* main has printed the four strings of two different templates and two
\* different rows.
C10_Witness ==
    /\ phase = "returned"
    /\ Len(format) = 2 /\ Len(rows) = 2
    /\ format[1] # format[2] /\ rows[1] # rows[2]
    /\ Len(stdout) = 4
    /\ stdout[2] # stdout[3]

(***************************************************************************)
(* Properties of filter_out_long_empty.                                    *)
(***************************************************************************)

\* The place of character k of s in its run of whitespace: k less the last
\* place before k that holds no whitespace.
PlaceInRun(s, k) ==
    LET before == {j \in 1..(k - 1) : ~IsWhitespace(s[j])}
    IN  k - (IF before = {} THEN 0 ELSE CHOOSE j \in before : \A i \in before : i <= j)

\* Character k of s is kept: it is no whitespace, or one of the first count
\* characters of its run.
KeptAt(s, k, count) == ~IsWhitespace(s[k]) \/ PlaceInRun(s, k) <= count

RECURSIVE KeptUpTo(_, _, _)
\* The kept characters among the first k of s, in order.
KeptUpTo(s, k, count) ==
    IF k = 0 THEN <<>>
    ELSE IF KeptAt(s, k, count) THEN Append(KeptUpTo(s, k - 1, count), s[k])
    ELSE KeptUpTo(s, k - 1, count)

\* C11: filter_out_long_empty(count) keeps every character that is no
\* whitespace, in order, and of every maximal run of whitespace exactly its
\* first min(length, count) characters; so the result has no run of
\* whitespace longer than count, count = 0 removes all whitespace, and a text
\* whose runs are all at most count long comes back unchanged.
C11_Filter ==
    phase = "cfg" =>
        /\ text = (IF opt_line THEN FirstLine(file) ELSE file)
        /\ cfg_text = KeptUpTo(text, Len(text), long_empty_count)
        /\ SelectSeq(cfg_text, NotWhitespace) = SelectSeq(text, NotWhitespace)
        /\ \A k \in DOMAIN cfg_text :
              IsWhitespace(cfg_text[k]) => PlaceInRun(cfg_text, k) <= long_empty_count
        /\ long_empty_count = 0 => \A k \in DOMAIN cfg_text : ~IsWhitespace(cfg_text[k])
        /\ (\A k \in DOMAIN text : KeptAt(text, k, long_empty_count)) => cfg_text = text
        /\ text = Str(<<"a", " ", " ", " ", "b">>) =>
               cfg_text = <<CharCode("a")>>
                          \o [k \in 1..(IF long_empty_count < 3 THEN long_empty_count
                                         ELSE 3) |-> CharCode(" ")]
                          \o <<CharCode("b")>>
\* A text with a run of three different whitespace characters between two
\* letters has been filtered down to the first two of the run.
C11_Witness ==
    /\ phase = "cfg"
    /\ long_empty_count = 2
    /\ Len(text) = 5 /\ Len(cfg_text) = 4
    /\ ~IsWhitespace(text[1]) /\ ~IsWhitespace(text[5])
    /\ text[2] # text[3] /\ text[3] # text[4]
    /\ cfg_text = <<text[1], text[2], text[3], text[5]>>

(***************************************************************************)
(* Properties of get_salt.                                                 *)
(***************************************************************************)

\* C13: for every 16-bit random number get_salt returns a salt with
\* 32768 <= salt <= 65535, equal to (rand & 32767) + 32768, without overflow
\* of u16; every value of that range is returned for some random number (for
\* the random number salt - 32768, and again for the salt itself).
C13_Salt ==
    (phase = "random" \/ phase = "salted" \/ phase = "panic") =>
        /\ rand_num \in 0..65535
        /\ phase # "panic"
        /\ phase = "salted" =>
              /\ salt >= 32768 /\ salt <= 65535
              /\ salt = (rand_num % 32768) + 32768
              /\ get_salt(salt - 32768) = [ok |-> TRUE, val |-> salt]
              /\ get_salt(salt) = [ok |-> TRUE, val |-> salt]
              /\ rand_num < 32768 => salt = rand_num + 32768
\* get_salt has returned the largest salt for the largest random number.
C13_Witness ==
    /\ phase = "salted"
    /\ rand_num = 65535
    /\ salt = 65535

(***************************************************************************)
(* Properties of Translater::translate.                                    *)
(***************************************************************************)

\* The number of posts among the first k that ended with the outcome o.
Outcomes(k, o) == Cardinality({i \in 1..k : posts[i].outcome = o})

\* The state of the request loop agrees with the outcomes so far.
LoopState ==
    LET n == Len(posts)
        loop_phases == {"loop", "posted", "done", "panic_timeout", "panic_error",
                        "translated", "panic_json"}
    IN  phase \in loop_phases =>
           /\ n <= 3
           /\ payload = build_payload(cfg_text, from_lang, to_lang, salt)
           /\ \A i \in 1..n : posts[i].payload = payload
           /\ timeout_count = Outcomes(n, "timeout")
           /\ error_count = Outcomes(n, "error")
           /\ \A i \in 1..(n - 1) :
                 /\ posts[i].outcome \in {"timeout", "error"}
                 /\ Outcomes(i, "timeout") < 2
                 /\ Outcomes(i, "error") < 2
           /\ phase = "loop" <=>
                 /\ Outcomes(n, "ok") = 0 /\ Outcomes(n, "pending") = 0
                 /\ timeout_count < 2
                 /\ error_count < 2
           /\ phase = "posted" <=> (n > 0 /\ posts[n].outcome = "pending")
           /\ phase \in {"done", "translated", "panic_json"} <=>
                 (n > 0 /\ posts[n].outcome = "ok")
           /\ phase = "panic_timeout" <=>
                 (n > 0 /\ posts[n].outcome = "timeout" /\ timeout_count = 2)
           /\ phase = "panic_error" <=>
                 (n > 0 /\ posts[n].outcome = "error" /\ error_count = 2)

\* A step of the loop sends one post or takes its outcome; it leaves the
\* payload alone and lowers no counter.
LoopStep ==
    phase \in {"loop", "posted"} =>
        /\ timeout_count' >= timeout_count
        /\ error_count' >= error_count
        /\ timeout_count' + error_count' <= timeout_count + error_count + 1
        /\ payload' = payload
        /\ Len(posts') = Len(posts) + (IF phase = "loop" THEN 1 ELSE 0)

\* C12: the request loop always ends.  It stops at the first post that
\* succeeds, and panics at the post that brings the timeouts to 2 or the other
\* errors to 2; the counters never decrease, the payload built before the loop
\* is the one every post sends, and no call makes more than 3 posts.
C12_Loop ==
    /\ []LoopState
    /\ [][LoopStep]_vars
    /\ (phase \in {"loop", "posted"}) ~> (phase \in {"done", "panic_timeout", "panic_error"})

====
